---- MODULE Spec2Model ----
(***************************************************************************)
(* Model of the browser automation agent: the step loop of Agent.run       *)
(* (core/src/agent.js), the action registry (actions/action-registry.js), *)
(* and the action executor (actions/action-executor.js).                   *)
(*                                                                         *)
(* Agent.run is an async function; every `await` is a suspension point,   *)
(* so the model has one action per segment between two awaits and `pc`     *)
(* records the await (or statement) the run is standing at.                *)
(***************************************************************************)
EXTENDS Integers, Sequences, FiniteSets, TLC

\* ------------------------------------------------------------------ bounds
MaxSteps == 2          \* largest configured options.maxSteps explored
MaxRuns == 2           \* how many times run() is invoked on one Agent
MaxCookieFiles == 2    \* matching cookie files one run() restores
MaxRetryCeiling == 3   \* largest configured rateLimit.maxRetries explored
MaxAttempts == 5       \* cap on the API calls of one generateAction call
MaxAgents == 2         \* how many Agent objects are constructed
MaxClock == 2000       \* how far the clock runs, in milliseconds
TickMs == 500          \* the step of the clock, in milliseconds
MaxCalls == 3          \* how many times getPageState() is called
MaxRequests == 2       \* how many POST /api/run requests arrive
MaxHandlers == 2       \* how many handlers the directly called executor creates
MaxClients == 3        \* how many SSE connections are opened
MaxMessages == 2       \* how many messages are POSTed to /mcp/messages
MaxCreated == 3        \* how many sessions POST /api/session creates
MaxSkillRequests == 2  \* how many skill requests arrive
MaxDeletes == 2        \* how many DELETE /api/session requests arrive
MaxDrags == 3          \* how many mouse_drag actions are executed

\* -------------------------------------------------------------- JS values
Undefined == "undefined"

\* An error text. Err(m) is an ordinary message; the executor's message for
\* an unknown kind also names the kind and lists the registered kinds.
Err(m) == [msg |-> m, kind |-> Undefined, available |-> {}]
NoError == Err(Undefined)

\* --------------------------------------------------------------- registry
\* A registered action class: its static type and metadata fields.
\* isCoordinate keeps the default of BaseAction unless a class overrides it.
ActionClass(type, re, term) ==
    [type |-> type, requiresElement |-> re, isTerminal |-> term,
     isCoordinate |-> FALSE]


\* JS null, as returned by registry.get for an unknown kind.
Null == ActionClass("null", FALSE, FALSE)

\* The plugins shipped in actions/plugins that the loop needs.
BuiltinPlugins ==
    [k \in {"click", "extract", "complete", "terminate"} |->
        CASE k = "click" -> ActionClass(k, TRUE, FALSE)
          [] k = "extract" -> ActionClass(k, FALSE, FALSE)
          [] k = "complete" -> ActionClass(k, FALSE, TRUE)
          [] k = "terminate" -> ActionClass(k, FALSE, TRUE)]

\* The same directory with two more plugins dropped in: "abort", a terminal
\* kind whose type is neither 'complete' nor 'terminate', and "probe", a
\* non-terminal kind that inherits BaseAction.execute.
ExtendedPlugins ==
    [k \in DOMAIN BuiltinPlugins \cup {"abort", "probe"} |->
        CASE k = "abort" -> ActionClass(k, FALSE, TRUE)
          [] k = "probe" -> ActionClass(k, FALSE, FALSE)
          [] OTHER -> BuiltinPlugins[k]]

Registries == {BuiltinPlugins, ExtendedPlugins}

\* Every kind a decision may name; "scroll" is a legacy type with no plugin.
Kinds == {"click", "extract", "complete", "terminate", "abort", "probe", "scroll"}

\* get() without the `|| null` default: JS undefined, what Map.get itself
\* returns for a missing key.
getNoNullDefault(reg, actionType) ==
    IF actionType \in DOMAIN reg THEN reg[actionType]
    ELSE ActionClass("undefined", FALSE, FALSE)

\* get(actionType): this.actions.get(actionType) || null
get(reg, actionType) == IF actionType \in DOMAIN reg THEN reg[actionType] ELSE Null

getTypes(reg) == DOMAIN reg

requiresElement(reg, actionType) ==
    IF get(reg, actionType) # Null THEN get(reg, actionType).requiresElement ELSE FALSE

isTerminal(reg, actionType) ==
    IF get(reg, actionType) # Null THEN get(reg, actionType).isTerminal ELSE FALSE

\* register(ActionClass): a class without a usable static type is refused
\* with an exception, any other class is stored under its type.
registerThrows(cls) == cls.type \in {"", Undefined, "unknown"}

register(reg, cls) ==
    [k \in DOMAIN reg \cup {cls.type} |-> IF k = cls.type THEN cls ELSE reg[k]]

\* The classes a caller may hand to register: the two dropped-in plugins,
\* BaseAction itself, whose type is 'unknown', a class whose static type is
\* the empty string, and a class that declares the type 'extract' again,
\* this time as a terminal kind.
PluginClasses ==
    {ExtendedPlugins["abort"], ExtendedPlugins["probe"],
     ActionClass("unknown", FALSE, FALSE), ActionClass("", FALSE, FALSE),
     ActionClass("extract", FALSE, TRUE)}

\* loadPlugins() emptying the map before it loads the directory.
loadPluginsClearing(reg, dir) == dir

\* loadPlugins(): every class exported by a file of the plugins directory
\* that has a usable type is registered, in addition to what is registered.
loadPlugins(reg, dir) ==
    [k \in DOMAIN reg \cup DOMAIN dir |-> IF k \in DOMAIN dir THEN dir[k] ELSE reg[k]]

\* The registry right after the plugins directory was loaded at import:
\* the ten classes of actions/plugins. hover and input_text require an
\* element; the three mouse classes declare static isCoordinate = true.
ShippedPlugins ==
    [k \in DOMAIN BuiltinPlugins
            \cup {"hover", "input_text", "screenshot",
                  "mouse_click", "mouse_drag", "mouse_move"} |->
        CASE k \in {"hover", "input_text"} -> ActionClass(k, TRUE, FALSE)
          [] k = "screenshot" -> ActionClass(k, FALSE, FALSE)
          [] k \in {"mouse_click", "mouse_drag", "mouse_move"} ->
                [ActionClass(k, FALSE, FALSE) EXCEPT !.isCoordinate = TRUE]
          [] OTHER -> BuiltinPlugins[k]]

\* getElementActions(): the types of getAll() whose class requires an element.
getElementActions(reg) == {k \in DOMAIN reg : reg[k].requiresElement}

\* getTerminalActions(): the types of getAll() whose class is terminal.
getTerminalActions(reg) == {k \in DOMAIN reg : reg[k].isTerminal}

\* isCoordinateAction(actionType) of action-types.
isCoordinateAction(reg, actionType) ==
    IF get(reg, actionType) # Null THEN get(reg, actionType).isCoordinate ELSE FALSE

\* The arrays action-types exports, built once when the module is
\* imported, right after registry.loadPlugins().
ExportedLists(reg) ==
    [ELEMENT_ACTIONS |-> getElementActions(reg),
     TERMINAL_ACTIONS |-> getTerminalActions(reg),
     COORDINATE_ACTIONS |-> {"click_coords", "move_mouse", "drag"}]

\* ------------------------------------------------------- decisions, tables
ElementIds == {"e1"}
ElementTables == {{}, {"e1"}}

\* A raw decision of the provider / a parsed action.
\* A text is a sequence of pieces, so that one text can hold another.
Decision(type, id, data) ==
    [action_type |-> type, element_id |-> id, extracted_data |-> data,
     output_format |-> Undefined, output_title |-> Undefined,
     reasoning |-> <<"because">>]

\* A decision that also names the format and the title of the output.
WithOutput(decision, format, title) ==
    [decision EXCEPT !.output_format = format, !.output_title = title]

\* No decision (the value of an unassigned local).
NoDecision ==
    [action_type |-> Undefined, element_id |-> Undefined, extracted_data |-> Undefined,
     output_format |-> Undefined, output_title |-> Undefined, reasoning |-> <<>>]

\* The decisions explored: every kind but extract without element reference,
\* a click with one, a complete carrying a payload, a format and a title,
\* and the extract, carrying all three as well.
Decisions ==
    {Decision(k, Undefined, Undefined) : k \in Kinds \ {"extract"}}
    \cup {Decision("click", id, Undefined) : id \in ElementIds}
    \cup {WithOutput(Decision("complete", Undefined, "d1"), "markdown", "t1")}
    \cup {WithOutput(Decision("extract", Undefined, "d0"), "csv", "t0")}

\* The parser checking only that an element reference is present.
parseAcceptsAnyReference(reg, raw, table) ==
    /\ raw.action_type \in getTypes(reg)
    /\ requiresElement(reg, raw.action_type) => raw.element_id # Undefined

\* parse(rawDecision, elementTable): accepted iff the kind is registered and
\* a requires-element kind names an element of the current table.
parseAccepts(reg, raw, table) ==
    /\ raw.action_type \in getTypes(reg)
    /\ requiresElement(reg, raw.action_type) => raw.element_id \in table

parseAction(raw) == raw

\* --------------------------------------------------------------- executor
\* What the invoked handler does: returns success, returns a failure
\* outcome, throws an Error, throws a value that is not an object (a
\* string), or throws null or undefined.
HandlerBehaviours == {"ok", "fail", "throw", "throw_text", "throw_null"}

\* The behaviours the handler of a kind can show. complete, terminate and
\* extract return success unconditionally; click catches every fault of its
\* page operations and returns a failure outcome, and cannot succeed on a
\* lost browser; "probe" does not override BaseAction.execute, which throws;
\* the handler of "abort" returns success or throws whatever value it likes.
BehavioursOf(actionType, b) ==
    CASE actionType \in {"complete", "terminate", "extract"} -> {"ok"}
      [] actionType = "click" -> IF b = "lost" THEN {"fail"} ELSE {"ok", "fail"}
      [] actionType = "probe" -> {"throw"}
      [] actionType = "abort" -> {"ok", "throw", "throw_text", "throw_null"}
      [] OTHER -> HandlerBehaviours

UnknownKindError(reg, actionType) ==
    [msg |-> "Unknown action type", kind |-> actionType, available |-> getTypes(reg)]

\* undefined or null handed to execute as the action: a value that has no
\* properties, so that destructuring it throws a TypeError.
Nullish == [nullish |-> TRUE]

HandlerOutcome(beh) ==
    IF beh = "ok" THEN [success |-> TRUE, error |-> NoError]
    ELSE [success |-> FALSE, error |-> Err("handler_failed")]

\* ActionExecutor.execute(action): `threw` tells whether an exception
\* leaves execute, `handlerInvoked` whether a handler was instantiated and
\* run (the only place browser operations are issued from). The catch
\* block returns { success: false, error: error.message }: the message of
\* an Error, undefined for a thrown string, and for a thrown null or
\* undefined the read of error.message throws a TypeError out of execute.
execute(reg, action, beh) ==
    IF action = Nullish
    THEN [threw |-> TRUE, handlerInvoked |-> FALSE,
          result |-> [success |-> FALSE, error |-> Err("TypeError")]]
    ELSE IF get(reg, action.action_type) = Null
    THEN [threw |-> FALSE, handlerInvoked |-> FALSE,
          result |-> [success |-> FALSE,
                      error |-> UnknownKindError(reg, action.action_type)]]
    ELSE CASE beh = "throw" ->
                [threw |-> FALSE, handlerInvoked |-> TRUE,
                 result |-> [success |-> FALSE, error |-> Err("handler_threw")]]
           [] beh = "throw_text" ->
                [threw |-> FALSE, handlerInvoked |-> TRUE,
                 result |-> [success |-> FALSE, error |-> NoError]]
           [] beh = "throw_null" ->
                [threw |-> TRUE, handlerInvoked |-> TRUE,
                 result |-> [success |-> FALSE, error |-> Err("TypeError")]]
           [] OTHER ->
                [threw |-> FALSE, handlerInvoked |-> TRUE,
                 result |-> HandlerOutcome(beh)]

\* ------------------------------------------------------- element resolver
\* The four lookups of BaseAction.getElement, in the order of the code.
Strategies == <<"xpath", "name", "aria-label", "type">>

\* An element descriptor of the element table, reduced to what getElement
\* reads: whether xpath, name, aria-label and type are set, and the tag.
Descriptors ==
    [xpath : BOOLEAN, name : BOOLEAN, ariaLabel : BOOLEAN, type : BOOLEAN,
     tag : {"input", "button"}]

\* The element tables the resolver is given: "e1" is absent or described.
DescriptorTables == {[id \in ids |-> d] : ids \in SUBSET ElementIds, d \in Descriptors}

NoQuery == [queried |-> <<>>, element |-> "null"]

\* One lookup on the page as it is when the lookup runs; the handle found
\* is named after the lookup. A lookup that finds nothing yields null (for
\* xpath: the locator throws and the exception is swallowed).
Query(st, strategy, hit) ==
    [queried |-> Append(st.queried, strategy),
     element |-> IF hit THEN strategy ELSE "null"]

Located(st) == [error |-> Undefined, handle |-> st.element, queried |-> st.queried]

NotLocated(msg, st) == [error |-> msg, handle |-> "null", queried |-> st.queried]

\* The lookups with the aria-label lookup placed before the name lookup.
lookupsAriaFirst(info) ==
    (IF info.xpath THEN <<"xpath">> ELSE <<>>)
    \o (IF info.ariaLabel THEN <<"aria-label">> ELSE <<>>)
    \o (IF info.name THEN <<"name">> ELSE <<>>)
    \o (IF info.type /\ info.tag = "input" THEN <<"type">> ELSE <<>>)

\* The lookups without the aria-label lookup.
lookupsNoAriaLabel(info) ==
    (IF info.xpath THEN <<"xpath">> ELSE <<>>)
    \o (IF info.name THEN <<"name">> ELSE <<>>)
    \o (IF info.type /\ info.tag = "input" THEN <<"type">> ELSE <<>>)

\* The lookups BaseAction.getElement issues for a descriptor while each of
\* them finds nothing, in the order of its if statements: every statement
\* is guarded by !element and by the descriptor field it uses.
lookups(info) ==
    (IF info.xpath THEN <<"xpath">> ELSE <<>>)
    \o (IF info.name THEN <<"name">> ELSE <<>>)
    \o (IF info.ariaLabel THEN <<"aria-label">> ELSE <<>>)
    \o (IF info.type /\ info.tag = "input" THEN <<"type">> ELSE <<>>)

\* ------------------------------------------------------- provider adapter
\* The failures of one API call: a non-OK response, a rejected fetch, a
\* response that cannot be parsed.
ApiErrors == {"OpenRouter API error: 500", "fetch failed", "invalid response"}

\* The failure of the rate limiter itself.
LimiterError == "rate limit exceeded"

\* Every error text the catch block of generateAction can receive.
ProviderErrors == ApiErrors \cup {LimiterError}

\* The provider failures explored inside the step loop.
StepProviderErrors == {"fetch failed"}

\* The safe fallback action of the catch block of generateAction:
\* { action_type: 'terminate', reasoning: `LLM API error: ${error.message}` }
FallbackDecision(e) ==
    [action_type |-> "terminate", element_id |-> Undefined, extracted_data |-> Undefined,
     output_format |-> Undefined, output_title |-> Undefined,
     reasoning |-> <<"LLM API error: ", e>>]

\* generateAction() without its try/catch: the error leaves the call.
rethrowProviderError(e) == [threw |-> TRUE, decision |-> NoDecision]

\* catch (error) { return { action_type: 'terminate', ... } }
catchProviderError(e) == [threw |-> FALSE, decision |-> FallbackDecision(e)]

\* The retry wrapper goes on without looking at the ceiling.
shouldRetryAlways(attempts, maxRetries) == TRUE

\* The retry wrapper: another attempt is made while the attempts made are
\* below the configured ceiling.
shouldRetry(attempts, maxRetries) == attempts < maxRetries

\* The delay before the next attempt: the last delay times the multiplier.
nextDelay(delay, retryMultiplier) == delay * retryMultiplier

\* ------------------------------------------------------------------ agent
VARIABLES
    pc,                 \* where run() stands
    runs,               \* number of run() invocations so far
    registry,           \* the process-wide action registry
    maxSteps,           \* options.maxSteps
    waitBetweenActions, \* options.waitBetweenActions
    headless,           \* options.headless
    browser,            \* this.browser: "null", "open", "lost" or "closed"
    elementMap,         \* this.executor.elementMap
    currentStep,        \* this.currentStep
    actionLog,          \* this.actionLog
    extractedData,      \* this.extractedData
    outputFormat,       \* this.outputFormat
    outputTitle,        \* this.outputTitle
    pageState,          \* local pageState.elementMap of the current step
    rawAction,          \* local rawAction of the current step
    action,             \* local action of the current step
    result,             \* local result of the current step
    caught,             \* the error travelling to the catch block
    saved,              \* the session record file, as last written
    saves,              \* number of times the record file was written
    logAtStart,         \* history: length of actionLog when run() was called
    stepAtStart,        \* history: currentStep when run() was called
    iterations,         \* history: loop iterations of the current run
    handlerThrew,       \* history: the handler of the current step threw
    handlerInvoked,     \* history: the last execute() ran a handler
    handlers,           \* the handler instances the executors have created
    tableStep,          \* history: the step whose table the executor holds
    firstRegistered,    \* history: each kind's class when first registered
    lookup,             \* the last registry lookup and what it returned
    resolution,         \* the last getElement call and what it returned
    provider,           \* the generateAction call of the provider adapter
    sessions,           \* the clock, the Agents constructed and the log files
    stable,             \* the getPageState call with its stability wait
    server,             \* the POST /api/run requests of the HTTP server
    mcp,                \* the SSE connections of /mcp/sse and their messages
    sessionMap,         \* the `sessions` Map of the HTTP server
    skill,              \* the POST /api/skill request being handled
    drag,               \* the mouse_drag handler and the pointer it drives
    exported,           \* ELEMENT_, TERMINAL_ and COORDINATE_ACTIONS
    highlighter,        \* this.highlighter: "null" or "created"
    cookieFiles         \* matching cookie files preloadCookiesFromGoal has yet to add

vars == <<pc, runs, registry, maxSteps, waitBetweenActions, headless, browser, elementMap,
          currentStep, actionLog, extractedData, outputFormat, outputTitle, pageState, rawAction, action,
          result, caught, saved, saves, logAtStart, stepAtStart, iterations,
          handlerThrew, handlerInvoked, handlers, tableStep, firstRegistered, lookup,
          resolution, provider, sessions, stable, server, mcp, sessionMap,
          skill, drag, exported, highlighter, cookieFiles>>

\* The variables of the registry, resolver and adapter components, which
\* the step loop does not touch.
\* The state of the session files, of the page-stability wait and of the
\* HTTP server, which the step loop does not touch.
\* The state of the other endpoints of the HTTP server and of the drag
\* handler.
endpointVars == <<mcp, sessionMap, skill, drag>>

serviceVars == <<sessions, stable, server, endpointVars, exported,
                 highlighter, cookieFiles>>

componentVars == <<firstRegistered, lookup, resolution, provider, serviceVars>>

NoResult == [success |-> FALSE, error |-> NoError]

\* No handler instance (the local `handler` of execute() outside a call).
NoHandler == [class |-> Null, elementMap |-> {}, serial |-> 0]

\* No handler instance created yet.
NoHandlers == [created |-> 0, current |-> NoHandler]

\* execute() has returned: its local `handler` is out of scope.
Released(h) == [h EXCEPT !.current = NoHandler]

\* An executor keeping one handler per class and using it again.
InstantiateCached(h, cls, table) ==
    IF h.current.class = cls THEN h
    ELSE [created |-> h.created + 1,
          current |-> [class |-> cls, elementMap |-> table,
                       serial |-> h.created + 1]]

\* const handler = new ActionClass(this.page, this.elementMap): a new
\* instance, holding the element table the executor has at this call.
Instantiate(h, cls, table) ==
    [created |-> h.created + 1,
     current |-> [class |-> cls, elementMap |-> table, serial |-> h.created + 1]]
NoRecord == [status |-> Undefined, totalSteps |-> 0, actionLog |-> <<>>,
             extractedData |-> Undefined]

NoLookup == [kind |-> Undefined, found |-> Null, requiresElement |-> FALSE,
             isTerminal |-> FALSE]

NoResolution ==
    [elementId |-> Undefined, table |-> <<>>, st |-> NoQuery, answers |-> <<>>,
     out |-> NotLocated(Undefined, NoQuery)]

\* config.rateLimit.retryDelayMs
RetryDelayMs == 1000

NoOutcome == [threw |-> FALSE, decision |-> NoDecision]

NoProvider ==
    [phase |-> "idle", limiter |-> FALSE, maxRetries |-> 1, retryMultiplier |-> 1,
     attempts |-> 0, delay |-> RetryDelayMs, delays |-> <<>>,
     lastError |-> Undefined, responseOk |-> FALSE, out |-> NoOutcome]

\* The components as they are while nothing has used them.
\* ---------------------------------------------------------- session files
\* The clock counts milliseconds; the identifier keeps whole seconds.
MsPerSecond == 1000

\* generateSessionId(): YYYYMMDD_HHMMSS of `new Date()`, the time of day
\* with the milliseconds dropped.
generateSessionId(now) == now \div MsPerSecond

\* path.join(logsDir, `${this.sessionId}.json`)
logPath(sessionId) == <<"action-logs", sessionId, ".json">>

\* fs.writeFileSync(name, content): the file gets the content, replacing
\* what a file of that name held.
writeFileSync(files, name, content) ==
    {f \in files : f.name # name} \cup {[name |-> name, content |-> content]}

\* No Agent constructed, no file written.
NoSessions == [now |-> 0, agents |-> <<>>, files |-> {}, written |-> {}]

\* No getPageState call made: the page is live and nothing was waited for.
\* `calls` counts the calls made, `returned` those that returned a page
\* state and `waited` the milliseconds of fixed delay taken so far.
NoStable ==
    [phase |-> "idle", page |-> "live", calls |-> 0, returned |-> 0,
     waited |-> 0, loadTimedOut |-> FALSE, idleTimedOut |-> FALSE,
     waits |-> <<>>]

\* No request received.
NoServer == [requests |-> <<>>]

\* const sessionId = `session_${Date.now()}`
newSessionId(now) == <<"session_", now>>

\* sessions.set(id, session): the entry of that key is replaced.
mapSet(entries, id, session) ==
    {e \in entries : e.id # id} \cup {[id |-> id, session |-> session]}

\* sessions.delete(id)
mapDelete(entries, id) == {e \in entries : e.id # id}

\* const sessions = new Map(): no session stored. `created` lists, for
\* every session object created, its identifier and whether it was closed.
NoSessionMap == [now |-> 0, entries |-> {}, created |-> <<>>, closing |-> <<>>]

\* No POST /api/skill request received.
NoSkill == [requests |-> <<>>]

\* No mouse_drag executed: no pointer operation issued, the button up.
NoDrag == [phase |-> "idle", calls |-> 0, ops |-> <<>>, issued |-> 0,
           pressed |-> FALSE, result |-> Null]

\* let mcpTransport = null; no SSE connection, no message.
NoMcp == [mcpTransport |-> 0, opened |-> 0, open |-> {}, messages |-> <<>>]

ServicesInit ==
    /\ sessions = NoSessions
    /\ stable = NoStable
    /\ server = NoServer
    /\ mcp = NoMcp
    /\ sessionMap = NoSessionMap
    /\ skill = NoSkill
    /\ drag = NoDrag
    /\ exported = ExportedLists(registry)
    /\ highlighter = "null"
    /\ cookieFiles = 0

ComponentsInit ==
    /\ tableStep = 0
    /\ firstRegistered = registry
    /\ lookup = NoLookup
    /\ resolution = NoResolution
    /\ provider = NoProvider
    /\ ServicesInit

\* The outcomes of one awaited browser operation: it returns, it throws and
\* the browser lives on, or the browser is lost (crashed or closed from
\* outside) and the operation throws. Every operation on a lost browser throws.
BrowserOutcomes(b) == IF b = "lost" THEN {"lost"} ELSE {"ok", "throws", "lost"}

AfterOp(b, o) == IF o = "lost" THEN "lost" ELSE b

\* getStatus()
getStatus(log, step, max) ==
    IF Len(log) = 0 THEN "no_actions"
    ELSE LET lastAction == log[Len(log)] IN
         CASE lastAction.action_type = "complete" -> "completed"
           [] lastAction.action_type = "terminate" -> "terminated"
           [] lastAction.action_type = "error" -> "error"
           [] OTHER -> IF step >= max THEN "max_steps_reached" ELSE "unknown"

\* The log entry with the reasoning left out.
LogEntryWithoutReasoning(step, act, res) ==
    [step |-> step, action_type |-> act.action_type, element_id |-> act.element_id,
     extracted_data |-> act.extracted_data, output_format |-> act.output_format,
     output_title |-> act.output_title, reasoning |-> <<>>,
     result |-> [success |-> res.success, error |-> res.error], error |-> NoError]

\* The log entry of an executed action: { step, ...action, result }.
LogEntry(step, act, res) ==
    [step |-> step, action_type |-> act.action_type, element_id |-> act.element_id,
     extracted_data |-> act.extracted_data, output_format |-> act.output_format,
     output_title |-> act.output_title, reasoning |-> act.reasoning,
     result |-> [success |-> res.success, error |-> res.error], error |-> NoError]

\* The log entry of the catch block: { step, action_type: 'error', error }.
ErrorEntry(step, e) ==
    [step |-> step, action_type |-> "error", element_id |-> Undefined,
     extracted_data |-> Undefined, output_format |-> Undefined,
     output_title |-> Undefined, reasoning |-> <<>>, result |-> NoResult,
     error |-> e]

Init ==
    /\ pc = "idle"
    /\ runs = 0
    /\ registry \in Registries
    /\ maxSteps \in 0..MaxSteps
    /\ waitBetweenActions \in {0, 1000}
    /\ headless \in BOOLEAN
    /\ browser = "null"
    /\ elementMap = {}
    /\ currentStep = 0
    /\ actionLog = <<>>
    /\ extractedData = Undefined
    /\ outputFormat = Undefined
    /\ outputTitle = Undefined
    /\ pageState = {}
    /\ rawAction = NoDecision
    /\ action = NoDecision
    /\ result = NoResult
    /\ caught = NoError
    /\ saved = NoRecord
    /\ saves = 0
    /\ logAtStart = 0
    /\ stepAtStart = 0
    /\ iterations = 0
    /\ handlerThrew = FALSE
    /\ handlerInvoked = FALSE
    /\ handlers = NoHandlers
    /\ ComponentsInit

\* The error a rejected page operation carries.
PageError == Err("page")

\* The statement sequence `throw e` inside the try block of run().
Throw(e) == pc' = "catch" /\ caught' = e

\* A caller invokes agent.run(url, goal).
Run ==
    /\ pc \in {"idle", "returned", "threw"}
    /\ runs < MaxRuns
    /\ runs' = runs + 1
    /\ pc' = "initialize"
    /\ logAtStart' = Len(actionLog)
    /\ stepAtStart' = currentStep
    /\ iterations' = 0
    /\ handlerThrew' = FALSE
    /\ handlerInvoked' = FALSE
    /\ handlers' = Released(handlers)
    /\ UNCHANGED <<registry, maxSteps, waitBetweenActions, headless, browser,
                   elementMap, currentStep, actionLog, extractedData, outputFormat, outputTitle,
                   pageState, rawAction, action, result, caught, saved, saves>>
    /\ UNCHANGED <<tableStep, componentVars>>

\* await this.initialize(), up to the end of the awaited
\* chromium.launchPersistentContext. createAdapter(this.options.llmProvider)
\* comes first: validateConfig ends the process (process.exit(1)) when the
\* provider is unknown or its API key is not set, which the first run of
\* the process finds out (the options and the configuration do not change
\* afterwards); then run() never settles, and neither the catch block nor
\* close() nor saveResults() is reached. Otherwise adapter creation or
\* the launch throws (this.browser keeps its old value), or the context is
\* stored in this.browser; a context with a page gives the executor at
\* once (a fresh executor holds an empty element map), a context without
\* one awaits context.newPage() first.
Initialize ==
    /\ pc = "initialize"
    /\ \E o \in {"ok", "no_page", "launch_throws", "exits"} :
        /\ o = "exits" => runs = 1
        /\ browser' = IF o \in {"launch_throws", "exits"} THEN browser ELSE "open"
        /\ elementMap' = IF o = "ok" THEN {} ELSE elementMap
        /\ tableStep' = IF o = "ok" THEN 0 ELSE tableStep
        /\ CASE o = "ok" -> pc' = "cookies" /\ caught' = caught
             [] o = "no_page" -> pc' = "newPage" /\ caught' = caught
             [] o = "exits" -> pc' = "exited" /\ caught' = caught
             [] OTHER -> Throw(Err("initialize"))
    /\ UNCHANGED <<runs, registry, maxSteps, waitBetweenActions, headless, currentStep,
                   actionLog, extractedData, outputFormat, outputTitle, pageState, rawAction, action,
                   result, saved, saves, logAtStart, stepAtStart, iterations,
                   handlerThrew, handlerInvoked, handlers>>
    /\ UNCHANGED componentVars

\* this.page = ... || await context.newPage(); this.executor = new
\* ActionExecutor(this.page): the context may be lost while the page is
\* awaited, and a rejection leaves initialize() with this.browser set.
NewPage ==
    /\ pc = "newPage"
    /\ \E o \in BrowserOutcomes(browser) :
        /\ browser' = AfterOp(browser, o)
        /\ elementMap' = IF o = "ok" THEN {} ELSE elementMap
        /\ tableStep' = IF o = "ok" THEN 0 ELSE tableStep
        /\ IF o = "ok" THEN pc' = "cookies" /\ caught' = caught
           ELSE Throw(Err("initialize"))
    /\ UNCHANGED <<runs, registry, maxSteps, waitBetweenActions, headless, currentStep,
                   actionLog, extractedData, outputFormat, outputTitle, pageState, rawAction, action,
                   result, saved, saves, logAtStart, stepAtStart, iterations,
                   handlerThrew, handlerInvoked, handlers>>
    /\ UNCHANGED componentVars

\* await this.preloadCookiesFromGoal(goal, url), up to its first awaited
\* addCookies: reading the cookie folder (fs.readdirSync) is outside the
\* try of a single file and its exception leaves the function; files that
\* do not match, cannot be read or cannot be parsed are skipped (the error
\* of a single file is caught and logged); m matching files reach
\* `await this.browser.addCookies(cookies)` one after the other.
PreloadCookies ==
    /\ pc = "cookies"
    /\ \/ Throw(Err("cookies")) /\ cookieFiles' = cookieFiles
       \/ \E m \in 0..MaxCookieFiles :
            /\ cookieFiles' = m
            /\ pc' = IF m = 0 THEN "navigate" ELSE "addCookies"
            /\ caught' = caught
    /\ UNCHANGED <<runs, registry, maxSteps, waitBetweenActions, headless, browser,
                   elementMap, currentStep, actionLog, extractedData, outputFormat, outputTitle,
                   pageState, rawAction, action, result, saved, saves,
                   logAtStart, stepAtStart, iterations, handlerThrew,
                   handlerInvoked, handlers>>
    /\ UNCHANGED <<tableStep, firstRegistered, lookup, resolution, provider,
                   sessions, stable, server, endpointVars, exported,
                   highlighter>>

\* One awaited this.browser.addCookies(cookies) settles: its rejection is
\* caught by the try around the file and logged, the context may be lost
\* meanwhile, and the loop goes on to the next matching file.
AddCookies ==
    /\ pc = "addCookies"
    /\ \E o \in BrowserOutcomes(browser) :
        browser' = AfterOp(browser, o)
    /\ cookieFiles' = cookieFiles - 1
    /\ pc' = IF cookieFiles = 1 THEN "navigate" ELSE "addCookies"
    /\ UNCHANGED <<runs, registry, maxSteps, waitBetweenActions, headless,
                   elementMap, currentStep, actionLog, extractedData, outputFormat, outputTitle,
                   pageState, rawAction, action, result, caught, saved, saves,
                   logAtStart, stepAtStart, iterations, handlerThrew,
                   handlerInvoked, handlers>>
    /\ UNCHANGED <<tableStep, firstRegistered, lookup, resolution, provider,
                   sessions, stable, server, endpointVars, exported,
                   highlighter>>

\* await this.page.goto(url, { waitUntil: 'domcontentloaded' }): it
\* resolves and run() goes on, or it rejects and the error travels to the
\* catch block; the browser may be lost while it is awaited.
Navigate ==
    /\ pc = "navigate"
    /\ \E o \in BrowserOutcomes(browser) :
        /\ browser' = AfterOp(browser, o)
        /\ IF o = "ok" THEN pc' = "stabilise" /\ caught' = caught
           ELSE Throw(PageError)
    /\ UNCHANGED <<runs, registry, maxSteps, waitBetweenActions, headless, elementMap,
                   currentStep, actionLog, extractedData, outputFormat, outputTitle, pageState,
                   rawAction, action, result, saved, saves, logAtStart,
                   stepAtStart, iterations, handlerThrew, handlerInvoked, handlers>>
    /\ UNCHANGED <<tableStep, componentVars>>

\* await this.page.waitForTimeout(2000); if (!this.options.headless)
\* { this.highlighter = new ElementHighlighter(this.page); ... }
Stabilise ==
    /\ pc = "stabilise"
    /\ \E o \in BrowserOutcomes(browser) :
        /\ browser' = AfterOp(browser, o)
        /\ IF o = "ok"
           THEN /\ pc' = IF headless THEN "loop" ELSE "inject"
                /\ highlighter' = IF headless THEN highlighter ELSE "created"
                /\ caught' = caught
           ELSE Throw(PageError) /\ highlighter' = highlighter
    /\ UNCHANGED <<runs, registry, maxSteps, waitBetweenActions, headless, elementMap,
                   currentStep, actionLog, extractedData, outputFormat, outputTitle, pageState,
                   rawAction, action, result, saved, saves, logAtStart,
                   stepAtStart, iterations, handlerThrew, handlerInvoked, handlers>>
    /\ UNCHANGED <<tableStep, firstRegistered, lookup, resolution, provider,
                   sessions, stable, server, endpointVars, exported,
                   cookieFiles>>

\* await this.highlighter.injectStyles(): await this.page.addStyleTag(...)
InjectStyles ==
    /\ pc = "inject"
    /\ \E o \in BrowserOutcomes(browser) :
        /\ browser' = AfterOp(browser, o)
        /\ IF o = "ok" THEN pc' = "loop" /\ caught' = caught
           ELSE Throw(PageError)
    /\ UNCHANGED <<runs, registry, maxSteps, waitBetweenActions, headless, elementMap,
                   currentStep, actionLog, extractedData, outputFormat, outputTitle, pageState,
                   rawAction, action, result, saved, saves, logAtStart,
                   stepAtStart, iterations, handlerThrew, handlerInvoked, handlers>>
    /\ UNCHANGED <<tableStep, componentVars>>

\* The loop head with an off-by-one guard (<= instead of <).
LoopHeadOffByOne ==
    /\ pc = "loop"
    /\ IF currentStep <= maxSteps
       THEN /\ currentStep' = currentStep + 1
            /\ iterations' = iterations + 1
            /\ pc' = "extract"
       ELSE /\ pc' = "finally"
            /\ UNCHANGED <<currentStep, iterations>>
    /\ pageState' = {}
    /\ rawAction' = NoDecision
    /\ action' = NoDecision
    /\ result' = NoResult
    /\ handlerThrew' = FALSE
    /\ handlerInvoked' = FALSE
    /\ handlers' = Released(handlers)
    /\ UNCHANGED <<runs, registry, maxSteps, waitBetweenActions, headless, browser,
                   elementMap, actionLog, extractedData, outputFormat, outputTitle, caught, saved, saves,
                   logAtStart, stepAtStart>>
    /\ UNCHANGED <<tableStep, componentVars>>

\* while (this.currentStep < this.options.maxSteps) { this.currentStep++; ...
LoopHead ==
    /\ pc = "loop"
    /\ IF currentStep < maxSteps
       THEN /\ currentStep' = currentStep + 1
            /\ iterations' = iterations + 1
            /\ pc' = "extract"
       ELSE /\ pc' = "finally"
            /\ UNCHANGED <<currentStep, iterations>>
    /\ pageState' = {}
    /\ rawAction' = NoDecision
    /\ action' = NoDecision
    /\ result' = NoResult
    /\ handlerThrew' = FALSE
    /\ handlerInvoked' = FALSE
    /\ handlers' = Released(handlers)
    /\ UNCHANGED <<runs, registry, maxSteps, waitBetweenActions, headless, browser,
                   elementMap, actionLog, extractedData, outputFormat, outputTitle, caught, saved, saves,
                   logAtStart, stepAtStart>>
    /\ UNCHANGED <<tableStep, componentVars>>

\* The step without the call of setElementMap: the executor keeps the
\* table it had.
GetPageStateNoSetElementMap ==
    /\ pc = "extract"
    /\ \E o \in BrowserOutcomes(browser) :
        /\ browser' = AfterOp(browser, o)
        /\ IF o = "ok"
           THEN \E table \in ElementTables :
                    /\ pageState' = table
                    /\ elementMap' = elementMap
                    /\ pc' = "decide"
                    /\ caught' = caught
           ELSE Throw(PageError) /\ UNCHANGED <<pageState, elementMap>>
    /\ UNCHANGED <<runs, registry, maxSteps, waitBetweenActions, headless, currentStep,
                   actionLog, extractedData, outputFormat, outputTitle, rawAction, action, result, saved,
                   saves, logAtStart, stepAtStart, iterations, handlerThrew,
                   handlerInvoked, handlers>>
    /\ UNCHANGED <<tableStep, componentVars>>

\* const pageState = await this.getPageState();
\* this.executor.setElementMap(pageState.elementMap);
GetPageState ==
    /\ pc = "extract"
    /\ \E o \in BrowserOutcomes(browser) :
        /\ browser' = AfterOp(browser, o)
        /\ IF o = "ok"
           THEN \E table \in ElementTables :
                    /\ pageState' = table
                    /\ elementMap' = table
                    /\ tableStep' = currentStep
                    /\ pc' = "decide"
                    /\ caught' = caught
           ELSE Throw(PageError) /\ UNCHANGED <<pageState, elementMap, tableStep>>
    /\ UNCHANGED <<runs, registry, maxSteps, waitBetweenActions, headless, currentStep,
                   actionLog, extractedData, outputFormat, outputTitle, rawAction, action, result, saved,
                   saves, logAtStart, stepAtStart, iterations, handlerThrew,
                   handlerInvoked, handlers>>
    /\ UNCHANGED componentVars

\* const rawAction = await this.llm.generateAction(context);
\* The adapter returns the decision of the provider, or its fallback when
\* the provider failed, or the call throws before the provider is asked.
GenerateAction ==
    /\ pc = "decide"
    /\ \/ \E raw \in Decisions \cup {FallbackDecision(e) : e \in StepProviderErrors} :
            /\ rawAction' = raw
            /\ pc' = "parse"
            /\ caught' = caught
       \/ Throw(Err("generateAction")) /\ rawAction' = rawAction
    /\ UNCHANGED <<runs, registry, maxSteps, waitBetweenActions, headless, browser,
                   elementMap, currentStep, actionLog, extractedData, outputFormat, outputTitle,
                   pageState, action, result, saved, saves, logAtStart,
                   stepAtStart, iterations, handlerThrew, handlerInvoked, handlers>>
    /\ UNCHANGED <<tableStep, componentVars>>

\* const action = parseAction(rawAction, pageState.elementMap); the
\* highlight follows when a highlighter exists and the action names an
\* element: if (this.highlighter && action.element_id) { ... }
ParseAction ==
    /\ pc = "parse"
    /\ IF parseAccepts(registry, rawAction, pageState)
       THEN /\ action' = parseAction(rawAction)
            /\ pc' = IF highlighter = "created" /\ action'.element_id # Undefined
                     THEN "highlight" ELSE "execute"
            /\ caught' = caught
       ELSE /\ Throw(Err("ValidationError"))
            /\ action' = action
    /\ UNCHANGED <<runs, registry, maxSteps, waitBetweenActions, headless, browser, elementMap,
                   currentStep, actionLog, extractedData, outputFormat, outputTitle, pageState,
                   rawAction, result, saved, saves, logAtStart, stepAtStart,
                   iterations, handlerThrew, handlerInvoked, handlers>>
    /\ UNCHANGED <<tableStep, componentVars>>

\* highlightAction(): await this.page.evaluate(...) draws the highlight.
HighlightAction ==
    /\ pc = "highlight"
    /\ \E o \in BrowserOutcomes(browser) :
        /\ browser' = AfterOp(browser, o)
        /\ IF o = "ok" THEN pc' = "highlightShown" /\ caught' = caught
           ELSE Throw(PageError)
    /\ UNCHANGED <<runs, registry, maxSteps, waitBetweenActions, headless, elementMap,
                   currentStep, actionLog, extractedData, outputFormat, outputTitle, pageState,
                   rawAction, action, result, saved, saves, logAtStart,
                   stepAtStart, iterations, handlerThrew, handlerInvoked, handlers>>
    /\ UNCHANGED <<tableStep, componentVars>>

\* highlightAction(): await this.page.waitForTimeout(300);
HighlightWait ==
    /\ pc = "highlightShown"
    /\ \E o \in BrowserOutcomes(browser) :
        /\ browser' = AfterOp(browser, o)
        /\ IF o = "ok" THEN pc' = "toast" /\ caught' = caught
           ELSE Throw(PageError)
    /\ UNCHANGED <<runs, registry, maxSteps, waitBetweenActions, headless, elementMap,
                   currentStep, actionLog, extractedData, outputFormat, outputTitle, pageState,
                   rawAction, action, result, saved, saves, logAtStart,
                   stepAtStart, iterations, handlerThrew, handlerInvoked, handlers>>
    /\ UNCHANGED <<tableStep, componentVars>>

\* await this.highlighter.showToast(...): await this.page.evaluate(...)
ShowToast ==
    /\ pc = "toast"
    /\ \E o \in BrowserOutcomes(browser) :
        /\ browser' = AfterOp(browser, o)
        /\ IF o = "ok" THEN pc' = "execute" /\ caught' = caught
           ELSE Throw(PageError)
    /\ UNCHANGED <<runs, registry, maxSteps, waitBetweenActions, headless, elementMap,
                   currentStep, actionLog, extractedData, outputFormat, outputTitle, pageState,
                   rawAction, action, result, saved, saves, logAtStart,
                   stepAtStart, iterations, handlerThrew, handlerInvoked, handlers>>
    /\ UNCHANGED <<tableStep, componentVars>>

\* const result = await this.executor.execute(action);
\* A click that fails may have failed because the browser was lost.
Execute ==
    /\ pc = "execute"
    /\ \E beh \in BehavioursOf(action.action_type, browser) :
        LET out == execute(registry, action, beh) IN
        /\ handlerThrew' = (out.handlerInvoked
                              /\ beh \in {"throw", "throw_text", "throw_null"})
        /\ handlerInvoked' = out.handlerInvoked
        /\ handlers' = IF out.handlerInvoked
                       THEN Instantiate(handlers, get(registry, action.action_type),
                                        elementMap)
                       ELSE handlers
        /\ \E lost \in BOOLEAN :
            /\ lost => (action.action_type = "click" /\ beh = "fail")
            /\ browser' = IF lost THEN "lost" ELSE browser
        /\ IF out.threw
           THEN Throw(out.result.error) /\ result' = result
           ELSE result' = out.result /\ pc' = "log" /\ caught' = caught
    /\ UNCHANGED <<runs, registry, maxSteps, waitBetweenActions, headless, elementMap,
                   currentStep, actionLog, extractedData, outputFormat, outputTitle, pageState,
                   rawAction, action, saved, saves, logAtStart, stepAtStart,
                   iterations>>
    /\ UNCHANGED <<tableStep, componentVars>>

\* The log statement with unshift in place of push.
LogActionUnshift ==
    /\ pc = "log"
    /\ actionLog' = <<LogEntry(currentStep, action, result)>> \o actionLog
    /\ pc' = "check"
    /\ UNCHANGED <<runs, registry, maxSteps, waitBetweenActions, headless, browser,
                   elementMap, currentStep, extractedData, outputFormat, outputTitle, pageState, rawAction,
                   action, result, caught, saved, saves, logAtStart, stepAtStart,
                   iterations, handlerThrew, handlerInvoked, handlers>>
    /\ UNCHANGED <<tableStep, componentVars>>

\* The step going on to the terminal check with its entry not yet appended.
LogActionDeferred ==
    /\ pc = "log"
    /\ actionLog' = actionLog
    /\ pc' = "check"
    /\ UNCHANGED <<runs, registry, maxSteps, waitBetweenActions, headless, browser,
                   elementMap, currentStep, extractedData, outputFormat, outputTitle, pageState,
                   rawAction, action, result, caught, saved, saves,
                   logAtStart, stepAtStart, iterations, handlerThrew,
                   handlerInvoked, handlers>>
    /\ UNCHANGED <<tableStep, componentVars>>

\* this.actionLog.push({ step: this.currentStep, ...action, result: {...} });
LogAction ==
    /\ pc = "log"
    /\ actionLog' = Append(actionLog, LogEntry(currentStep, action, result))
    /\ pc' = "check"
    /\ UNCHANGED <<runs, registry, maxSteps, waitBetweenActions, headless, browser,
                   elementMap, currentStep, extractedData, outputFormat, outputTitle, pageState,
                   rawAction, action, result, caught, saved, saves,
                   logAtStart, stepAtStart, iterations, handlerThrew,
                   handlerInvoked, handlers>>
    /\ UNCHANGED <<tableStep, componentVars>>

\* The terminal check breaking only after a successful terminal action.
CheckTerminalOnSuccess ==
    /\ pc = "check"
    /\ IF isTerminal(registry, action.action_type) /\ result.success
       THEN /\ extractedData' = IF action.extracted_data # Undefined
                                THEN action.extracted_data ELSE extractedData
            /\ outputFormat' = IF action.output_format # Undefined
                               THEN action.output_format ELSE outputFormat
            /\ outputTitle' = IF action.output_title # Undefined
                              THEN action.output_title ELSE outputTitle
            /\ pc' = "finally"
            /\ pageState' = {}
            /\ rawAction' = NoDecision
            /\ action' = NoDecision
            /\ result' = NoResult
            /\ handlerThrew' = FALSE
            /\ handlerInvoked' = FALSE
            /\ handlers' = Released(handlers)
       ELSE /\ UNCHANGED <<extractedData, outputFormat, outputTitle>>
            /\ pc' = IF waitBetweenActions > 0 THEN "wait" ELSE "loop"
            /\ UNCHANGED <<pageState, rawAction, action, result, handlerThrew,
                           handlerInvoked, handlers>>
    /\ UNCHANGED <<runs, registry, maxSteps, waitBetweenActions, headless, browser,
                   elementMap, currentStep, actionLog, caught, saved, saves,
                   logAtStart, stepAtStart, iterations>>
    /\ UNCHANGED <<tableStep, componentVars>>

\* The terminal check followed by the wait whatever the configured delay is.
CheckTerminalAlwaysWaiting ==
    /\ pc = "check"
    /\ IF isTerminal(registry, action.action_type)
       THEN /\ extractedData' = IF action.extracted_data # Undefined
                                THEN action.extracted_data ELSE extractedData
            /\ outputFormat' = IF action.output_format # Undefined
                               THEN action.output_format ELSE outputFormat
            /\ outputTitle' = IF action.output_title # Undefined
                              THEN action.output_title ELSE outputTitle
            /\ pc' = "finally"
            /\ pageState' = {}
            /\ rawAction' = NoDecision
            /\ action' = NoDecision
            /\ result' = NoResult
            /\ handlerThrew' = FALSE
            /\ handlerInvoked' = FALSE
            /\ handlers' = Released(handlers)
       ELSE /\ UNCHANGED <<extractedData, outputFormat, outputTitle>>
            /\ pc' = "wait"
            /\ UNCHANGED <<pageState, rawAction, action, result, handlerThrew,
                           handlerInvoked, handlers>>
    /\ UNCHANGED <<runs, registry, maxSteps, waitBetweenActions, headless, browser,
                   elementMap, currentStep, actionLog, caught, saved, saves,
                   logAtStart, stepAtStart, iterations>>
    /\ UNCHANGED <<tableStep, componentVars>>

\* The capture of payload, format and title placed before the terminal test.
CheckTerminalCapturingAny ==
    /\ pc = "check"
    /\ extractedData' = IF action.extracted_data # Undefined
                        THEN action.extracted_data ELSE extractedData
    /\ outputFormat' = IF action.output_format # Undefined
                       THEN action.output_format ELSE outputFormat
    /\ outputTitle' = IF action.output_title # Undefined
                      THEN action.output_title ELSE outputTitle
    /\ IF isTerminal(registry, action.action_type)
       THEN /\ pc' = "finally"
            /\ pageState' = {}
            /\ rawAction' = NoDecision
            /\ action' = NoDecision
            /\ result' = NoResult
            /\ handlerThrew' = FALSE
            /\ handlerInvoked' = FALSE
            /\ handlers' = Released(handlers)
       ELSE /\ pc' = IF waitBetweenActions > 0 THEN "wait" ELSE "loop"
            /\ UNCHANGED <<pageState, rawAction, action, result, handlerThrew,
                           handlerInvoked, handlers>>
    /\ UNCHANGED <<runs, registry, maxSteps, waitBetweenActions, headless, browser,
                   elementMap, currentStep, actionLog, caught, saved, saves,
                   logAtStart, stepAtStart, iterations>>
    /\ UNCHANGED <<tableStep, componentVars>>

\* if (isTerminal(action.action_type)) { capture...; break; }
\* otherwise go to the inter-action wait (when configured) or the loop head.
\* After the break the locals of the loop body are out of scope.
CheckTerminal ==
    /\ pc = "check"
    /\ IF isTerminal(registry, action.action_type)
       THEN /\ extractedData' = IF action.extracted_data # Undefined
                                THEN action.extracted_data ELSE extractedData
            /\ outputFormat' = IF action.output_format # Undefined
                               THEN action.output_format ELSE outputFormat
            /\ outputTitle' = IF action.output_title # Undefined
                              THEN action.output_title ELSE outputTitle
            /\ pc' = "finally"
            /\ pageState' = {}
            /\ rawAction' = NoDecision
            /\ action' = NoDecision
            /\ result' = NoResult
            /\ handlerThrew' = FALSE
            /\ handlerInvoked' = FALSE
            /\ handlers' = Released(handlers)
       ELSE /\ UNCHANGED <<extractedData, outputFormat, outputTitle>>
            /\ pc' = IF waitBetweenActions > 0 THEN "wait" ELSE "loop"
            /\ UNCHANGED <<pageState, rawAction, action, result, handlerThrew,
                           handlerInvoked, handlers>>
    /\ UNCHANGED <<runs, registry, maxSteps, waitBetweenActions, headless, browser,
                   elementMap, currentStep, actionLog, caught, saved, saves,
                   logAtStart, stepAtStart, iterations>>
    /\ UNCHANGED <<tableStep, componentVars>>

\* await this.page.waitForTimeout(this.options.waitBetweenActions);
WaitBetweenActions ==
    /\ pc = "wait"
    /\ \E o \in BrowserOutcomes(browser) :
        /\ browser' = AfterOp(browser, o)
        /\ IF o = "ok" THEN pc' = "loop" /\ caught' = caught
           ELSE Throw(PageError)
    /\ UNCHANGED <<runs, registry, maxSteps, waitBetweenActions, headless, elementMap,
                   currentStep, actionLog, extractedData, outputFormat, outputTitle, pageState,
                   rawAction, action, result, saved, saves, logAtStart,
                   stepAtStart, iterations, handlerThrew, handlerInvoked, handlers>>
    /\ UNCHANGED <<tableStep, componentVars>>

\* catch (error) { this.actionLog.push({ step, action_type: 'error', error }) }
\* The locals of the try block are out of scope from here on.
Catch ==
    /\ pc = "catch"
    /\ actionLog' = Append(actionLog, ErrorEntry(currentStep, caught))
    /\ caught' = NoError
    /\ pc' = "finally"
    /\ pageState' = {}
    /\ rawAction' = NoDecision
    /\ action' = NoDecision
    /\ result' = NoResult
    /\ handlerThrew' = FALSE
    /\ handlerInvoked' = FALSE
    /\ handlers' = Released(handlers)
    /\ UNCHANGED <<runs, registry, maxSteps, waitBetweenActions, headless, browser,
                   elementMap, currentStep, extractedData, outputFormat, outputTitle, saved, saves,
                   logAtStart, stepAtStart, iterations>>
    /\ UNCHANGED <<tableStep, componentVars>>

\* close() as the last statement of the try block instead of a finally
\* block: it is skipped when the catch block has run.
CloseAtEndOfTry ==
    /\ pc = "finally"
    /\ LET viaCatch == Len(actionLog) > logAtStart
                        /\ actionLog[Len(actionLog)].action_type = "error" IN
       IF viaCatch THEN pc' = "save" /\ browser' = browser
       ELSE CASE browser = "null" -> pc' = "save" /\ browser' = browser
              [] browser = "open" ->
                    \/ pc' = "save" /\ browser' = "closed"
                    \/ pc' \in {"save", "threw"} /\ browser' = "lost"
              [] browser = "closed" -> pc' = "save" /\ browser' = browser
              [] browser = "lost" -> pc' \in {"save", "threw"} /\ browser' = browser
    /\ UNCHANGED <<runs, registry, maxSteps, waitBetweenActions, headless, elementMap,
                   currentStep, actionLog, extractedData, outputFormat, outputTitle, pageState, rawAction,
                   action, result, caught, saved, saves, logAtStart,
                   stepAtStart, iterations, handlerThrew, handlerInvoked, handlers>>
    /\ UNCHANGED <<tableStep, componentVars>>

\* finally { await this.close(); }  close() calls this.browser.close() when
\* this.browser is set. Closing a live browser succeeds. A browser that died
\* since the last awaited page operation is found lost here, and closing a
\* lost browser returns or rejects; the call is not guarded, so a rejection
\* leaves run() through the finally block.
Close ==
    /\ pc = "finally"
    /\ CASE browser = "null" -> pc' = "save" /\ browser' = browser
         [] browser = "open" ->
               \/ pc' = "save" /\ browser' = "closed"
               \/ pc' \in {"save", "threw"} /\ browser' = "lost"
         [] browser = "closed" -> pc' = "save" /\ browser' = browser
         [] browser = "lost" -> pc' \in {"save", "threw"} /\ browser' = browser
    /\ UNCHANGED <<runs, registry, maxSteps, waitBetweenActions, headless, elementMap,
                   currentStep, actionLog, extractedData, outputFormat, outputTitle, pageState,
                   rawAction, action, result, caught, saved, saves,
                   logAtStart, stepAtStart, iterations, handlerThrew,
                   handlerInvoked, handlers>>
    /\ UNCHANGED <<tableStep, componentVars>>

\* The results object with the length of the log as the step count.
buildResultsCountingEntries(log, step, max, data) ==
    [status |-> getStatus(log, step, max), totalSteps |-> Len(log),
     actionLog |-> log, extractedData |-> data]

\* const results = { totalSteps: this.currentStep, status: this.getStatus(),
\*                   extractedData: this.extractedData, actionLog: this.actionLog }
buildResults(log, step, max, data) ==
    [status |-> getStatus(log, step, max), totalSteps |-> step,
     actionLog |-> log, extractedData |-> data]

\* JSON.stringify of an action result: a key whose value is undefined is
\* left out.
stringifyResult(res) ==
    IF res.error = NoError THEN [success |-> res.success]
    ELSE [success |-> res.success, error |-> res.error]

\* JSON.stringify of a log entry. An entry of the catch block has the keys
\* step, action_type and error; an action entry has step, the keys of the
\* action and result. Keys with the value undefined are left out.
stringifyEntry(e) ==
    IF e.action_type = "error"
    THEN IF e.error = NoError
         THEN [step |-> e.step, action_type |-> e.action_type]
         ELSE [step |-> e.step, action_type |-> e.action_type, error |-> e.error]
    ELSE LET keys == {"step", "action_type", "reasoning", "result"}
                     \cup (IF e.element_id = Undefined THEN {} ELSE {"element_id"})
                     \cup (IF e.extracted_data = Undefined THEN {}
                           ELSE {"extracted_data"})
                     \cup (IF e.output_format = Undefined THEN {}
                           ELSE {"output_format"})
                     \cup (IF e.output_title = Undefined THEN {}
                           ELSE {"output_title"})
         IN [k \in keys |-> IF k = "result" THEN stringifyResult(e.result) ELSE e[k]]

\* JSON.stringify(results, null, 2): the text of the record file, as the
\* tree of keys and values it denotes. An unset extractedData is null.
stringify(results) ==
    [totalSteps |-> results.totalSteps,
     status |-> results.status,
     extractedData |-> IF results.extractedData = Undefined THEN "null"
                       ELSE results.extractedData,
     actionLog |-> [i \in 1..Len(results.actionLog) |->
                        stringifyEntry(results.actionLog[i])]]

\* Reading the record file back: JSON.parse of its text. A key that is not
\* in the text reads as undefined.
reload(json) ==
    LET field(o, k) == IF k \in DOMAIN o THEN o[k] ELSE Undefined IN
    [totalSteps |-> json.totalSteps,
     status |-> json.status,
     extractedData |-> json.extractedData,
     actionLog |-> [i \in 1..Len(json.actionLog) |->
                        [step |-> json.actionLog[i].step,
                         action_type |-> json.actionLog[i].action_type,
                         element_id |-> field(json.actionLog[i], "element_id"),
                         extracted_data |-> field(json.actionLog[i], "extracted_data")]]]

\* const results = await this.saveResults(); return results;
SaveResults ==
    /\ pc = "save"
    /\ saved' = buildResults(actionLog, currentStep, maxSteps, extractedData)
    /\ saves' = saves + 1
    /\ pc' = "returned"
    /\ UNCHANGED <<runs, registry, maxSteps, waitBetweenActions, headless, browser,
                   elementMap, currentStep, actionLog, extractedData, outputFormat, outputTitle,
                   pageState, rawAction, action, result, caught, logAtStart,
                   stepAtStart, iterations, handlerThrew, handlerInvoked, handlers>>
    /\ UNCHANGED <<tableStep, componentVars>>

Spec == Init /\ [][\/ Run
                   \/ Initialize
                   \/ NewPage
                   \/ PreloadCookies
                   \/ AddCookies
                   \/ Navigate
                   \/ Stabilise
                   \/ InjectStyles
                   \/ LoopHead
                   \/ GetPageState
                   \/ GenerateAction
                   \/ ParseAction
                   \/ HighlightAction
                   \/ HighlightWait
                   \/ ShowToast
                   \/ Execute
                   \/ LogAction
                   \/ CheckTerminal
                   \/ WaitBetweenActions
                   \/ Catch
                   \/ Close
                   \/ SaveResults]_vars

\* ------------------------------------------- the executor used on its own
\* A caller other than the step loop (a skill of the HTTP server) builds an
\* ActionExecutor on a page and calls it directly, with no parser in front.
\* pc is "executed" or "escaped" right after a call of execute (it returned,
\* or an exception left it) and "executor" otherwise.
ExecInit ==
    /\ pc = "executor"
    /\ runs = 0
    /\ registry \in Registries
    /\ maxSteps = 0
    /\ waitBetweenActions = 0
    /\ headless = FALSE
    /\ browser \in {"open", "lost"}
    /\ elementMap = {}
    /\ currentStep = 0
    /\ actionLog = <<>>
    /\ extractedData = Undefined
    /\ outputFormat = Undefined
    /\ outputTitle = Undefined
    /\ pageState = {}
    /\ rawAction = NoDecision
    /\ action = NoDecision
    /\ result = NoResult
    /\ caught = NoError
    /\ saved = NoRecord
    /\ saves = 0
    /\ logAtStart = 0
    /\ stepAtStart = 0
    /\ iterations = 0
    /\ handlerThrew = FALSE
    /\ handlerInvoked = FALSE
    /\ handlers = NoHandlers
    /\ ComponentsInit

\* The positions of a caller between two calls.
AtRest == {"executor", "executed", "escaped", "looked"}

\* History: the class each kind had when it was first registered.
FirstClasses(first, reg) ==
    [k \in DOMAIN reg |-> IF k \in DOMAIN first THEN first[k] ELSE reg[k]]

\* registry.register(ActionClass) by some module of the process.
Register ==
    /\ pc \in AtRest \cup {"executing"}
    /\ pc' = IF pc = "executing" THEN pc ELSE "executor"
    /\ \E cls \in PluginClasses :
        registry' = IF registerThrows(cls) THEN registry ELSE register(registry, cls)
    /\ firstRegistered' = FirstClasses(firstRegistered, registry')
    /\ UNCHANGED <<runs, maxSteps, waitBetweenActions, headless, browser, elementMap,
                   currentStep, actionLog, extractedData, outputFormat, outputTitle, pageState, rawAction,
                   action, result, caught, saved, saves, logAtStart,
                   stepAtStart, iterations, handlerThrew, handlerInvoked, handlers>>
    /\ UNCHANGED <<tableStep, lookup, resolution, provider, serviceVars>>

\* setElementMap(elementMap)
setElementMap ==
    /\ pc \in AtRest \cup {"executing"}
    /\ pc' = IF pc = "executing" THEN pc ELSE "executor"
    /\ \E table \in ElementTables : elementMap' = table
    /\ UNCHANGED <<runs, registry, maxSteps, waitBetweenActions, headless, browser,
                   currentStep, actionLog, extractedData, outputFormat, outputTitle, pageState, rawAction,
                   action, result, caught, saved, saves, logAtStart,
                   stepAtStart, iterations, handlerThrew, handlerInvoked, handlers>>
    /\ UNCHANGED <<tableStep, componentVars>>

\* One call execute(action) with an arbitrary action, up to its await:
\* undefined or null makes the destructuring throw, an unknown kind is
\* answered at once, and for a registered kind the handler is created on
\* the executor's table and its execute is awaited.
ExecuteCall ==
    /\ pc \in AtRest
    /\ handlers.created < MaxHandlers
    /\ \E a \in Decisions \cup {Nullish} :
        LET out == execute(registry, a, "ok") IN
        /\ action' = a
        /\ result' = IF out.handlerInvoked THEN NoResult ELSE out.result
        /\ handlerInvoked' = out.handlerInvoked
        /\ handlers' = IF out.handlerInvoked
                       THEN Instantiate(handlers, get(registry, a.action_type),
                                        elementMap)
                       ELSE handlers
        /\ pc' = IF out.threw THEN "escaped"
                 ELSE IF out.handlerInvoked THEN "executing" ELSE "executed"
    /\ handlerThrew' = FALSE
    /\ UNCHANGED <<runs, registry, maxSteps, waitBetweenActions, headless, browser,
                   elementMap, currentStep, actionLog, extractedData, outputFormat, outputTitle, pageState,
                   rawAction, caught, saved, saves, logAtStart, stepAtStart,
                   iterations>>
    /\ UNCHANGED <<tableStep, componentVars>>

\* The awaited handler settles and execute returns its result, or catches
\* what it threw. The handler works on the table it was created with: a
\* click on an element that is not in it can only fail.
HandlerSettles ==
    /\ pc = "executing"
    /\ \E beh \in BehavioursOf(action.action_type, browser) :
        LET out == execute(registry, action, beh) IN
        /\ (action.action_type = "click"
              /\ action.element_id \notin handlers.current.elementMap)
                => beh = "fail"
        /\ result' = out.result
        /\ handlerThrew' = (out.handlerInvoked
                              /\ beh \in {"throw", "throw_text", "throw_null"})
        /\ pc' = IF out.threw THEN "escaped" ELSE "executed"
    /\ UNCHANGED <<runs, registry, maxSteps, waitBetweenActions, headless, browser,
                   elementMap, currentStep, actionLog, extractedData, outputFormat, outputTitle, pageState,
                   rawAction, action, caught, saved, saves, logAtStart,
                   stepAtStart, iterations, handlerInvoked, handlers>>
    /\ UNCHANGED <<tableStep, componentVars>>

\* registry.loadPlugins() called again: the plugins directory holds the
\* shipped plugins, with or without the dropped-in ones.
LoadPlugins ==
    /\ pc \in AtRest \cup {"executing"}
    /\ pc' = IF pc = "executing" THEN pc ELSE "executor"
    /\ \E dir \in Registries : registry' = loadPlugins(registry, dir)
    /\ firstRegistered' = FirstClasses(firstRegistered, registry')
    /\ UNCHANGED <<runs, maxSteps, waitBetweenActions, headless, browser, elementMap,
                   currentStep, actionLog, extractedData, outputFormat, outputTitle, pageState, rawAction,
                   action, result, caught, saved, saves, logAtStart,
                   stepAtStart, iterations, handlerThrew, handlerInvoked, handlers>>
    /\ UNCHANGED <<tableStep, lookup, resolution, provider, serviceVars>>

\* get(actionType), requiresElement(actionType) and isTerminal(actionType)
\* for some kind string.
Lookup ==
    /\ pc \in AtRest \cup {"executing"}
    /\ pc' = IF pc = "executing" THEN pc ELSE "looked"
    /\ \E k \in Kinds :
        lookup' = [kind |-> k, found |-> get(registry, k),
                   requiresElement |-> requiresElement(registry, k),
                   isTerminal |-> isTerminal(registry, k)]
    /\ UNCHANGED <<runs, registry, maxSteps, waitBetweenActions, headless, browser,
                   elementMap, currentStep, actionLog, extractedData, outputFormat, outputTitle, pageState,
                   rawAction, action, result, caught, saved, saves, logAtStart,
                   stepAtStart, iterations, handlerThrew, handlerInvoked, handlers>>
    /\ UNCHANGED <<tableStep, firstRegistered, resolution, provider, serviceVars>>

ExecSpec ==
    ExecInit /\ [][Register \/ LoadPlugins \/ Lookup \/ setElementMap
                      \/ ExecuteCall \/ HandlerSettles]_vars

\* ------------------------------------------- the components on their own
\* The step loop's variables while no run is in progress.
LoopAtRest ==
    /\ runs = 0
    /\ registry = BuiltinPlugins
    /\ maxSteps = 0
    /\ waitBetweenActions = 0
    /\ headless = FALSE
    /\ browser = "null"
    /\ elementMap = {}
    /\ currentStep = 0
    /\ actionLog = <<>>
    /\ extractedData = Undefined
    /\ outputFormat = Undefined
    /\ outputTitle = Undefined
    /\ pageState = {}
    /\ rawAction = NoDecision
    /\ action = NoDecision
    /\ result = NoResult
    /\ caught = NoError
    /\ saved = NoRecord
    /\ saves = 0
    /\ logAtStart = 0
    /\ stepAtStart = 0
    /\ iterations = 0
    /\ handlerThrew = FALSE
    /\ handlerInvoked = FALSE
    /\ handlers = NoHandlers

loopVars == <<runs, registry, maxSteps, waitBetweenActions, headless, browser, elementMap,
              currentStep, actionLog, extractedData, outputFormat, outputTitle, pageState, rawAction, action,
              result, caught, saved, saves, logAtStart, stepAtStart, iterations,
              handlerThrew, handlerInvoked, handlers, tableStep>>

\* A handler on a live page, holding some element table.
ResolverInit ==
    /\ pc = "resolver"
    /\ LoopAtRest
    /\ ComponentsInit

\* A handler calls this.getElement(elementId), with the id of a decision or
\* with none, against its element table: getElement up to its first
\* awaited lookup. It throws for a missing id and for an id that is not in
\* the table, and also when the descriptor allows no lookup at all.
GetElementCall ==
    /\ pc \in {"resolver", "resolved"}
    /\ \E id \in ElementIds \cup {Undefined}, table \in DescriptorTables :
        LET call == [NoResolution EXCEPT !.elementId = id, !.table = table] IN
        IF id = Undefined
        THEN /\ pc' = "resolved"
             /\ resolution' = [call EXCEPT
                    !.out = NotLocated("Element ID is required", NoQuery)]
        ELSE IF id \notin DOMAIN table
        THEN /\ pc' = "resolved"
             /\ resolution' = [call EXCEPT
                    !.out = NotLocated("not found in map", NoQuery)]
        ELSE IF lookups(table[id]) = <<>>
        THEN /\ pc' = "resolved"
             /\ resolution' = [call EXCEPT
                    !.out = NotLocated("Could not locate element", NoQuery)]
        ELSE /\ pc' = "resolving"
             /\ resolution' = call
    /\ UNCHANGED <<loopVars, firstRegistered, lookup, provider, serviceVars>>

\* The awaited lookup settles against the page as it is at that moment:
\* it gives a handle, gives null, or rejects. With a handle getElement
\* returns it; with none it goes on to the next lookup the descriptor
\* allows, and throws after the last one. Only the xpath lookup stands in
\* a try/catch, which swallows its rejection; a rejected name, aria-label
\* or type lookup leaves getElement at once with the error of the page.
LookupSettles ==
    /\ pc = "resolving"
    /\ \E answer \in {"handle", "null", "rejects"} :
        LET plan == lookups(resolution.table[resolution.elementId])
            i == Len(resolution.st.queried) + 1
            hit == answer = "handle"
            st == Query(resolution.st, plan[i], hit)
            asked == [resolution EXCEPT !.st = st, !.answers = Append(@, answer)]
        IN IF hit
           THEN /\ pc' = "resolved"
                /\ resolution' = [asked EXCEPT !.out = Located(st)]
           ELSE IF answer = "rejects" /\ plan[i] # "xpath"
           THEN /\ pc' = "resolved"
                /\ resolution' = [asked EXCEPT !.out = NotLocated("page error", st)]
           ELSE IF i = Len(plan)
           THEN /\ pc' = "resolved"
                /\ resolution' = [asked EXCEPT
                       !.out = NotLocated("Could not locate element", st)]
           ELSE /\ pc' = "resolving"
                /\ resolution' = asked
    /\ UNCHANGED <<loopVars, firstRegistered, lookup, provider, serviceVars>>

ResolverSpec == ResolverInit /\ [][GetElementCall \/ LookupSettles]_vars

\* The adapter, configured from config.rateLimit: with or without a rate
\* limiter, with some retry ceiling and some delay multiplier.
RetryMultipliers == {1, 2}

ProviderInit ==
    /\ pc = "adapter"
    /\ LoopAtRest
    /\ tableStep = 0
    /\ firstRegistered = registry
    /\ lookup = NoLookup
    /\ resolution = NoResolution
    /\ ServicesInit
    /\ \E lim \in BOOLEAN, ceiling \in 1..MaxRetryCeiling, mult \in RetryMultipliers :
        provider = [NoProvider EXCEPT !.limiter = lim, !.maxRetries = ceiling,
                                      !.retryMultiplier = mult]

\* generateAction(context) is called: the prompt is built and the API call
\* is handed to the rate limiter, or made directly when there is none.
GenerateActionCall ==
    /\ provider.phase \in {"idle", "done"}
    /\ provider' = [provider EXCEPT !.phase = IF provider.limiter THEN "limiter" ELSE "attempt",
                                    !.attempts = 0, !.delay = RetryDelayMs,
                                    !.delays = <<>>, !.lastError = Undefined,
                                    !.out = NoOutcome]
    /\ UNCHANGED <<pc, loopVars, firstRegistered, lookup, resolution, serviceVars>>

\* The rate limiter lets the call through, or fails by itself (a quota is
\* used up); its error goes to the catch block of generateAction.
LimiterAdmits ==
    /\ provider.phase = "limiter"
    /\ \/ provider' = [provider EXCEPT !.phase = "attempt"]
       \/ provider' = [provider EXCEPT !.phase = "done", !.lastError = LimiterError,
                                       !.out = catchProviderError(LimiterError)]
    /\ UNCHANGED <<pc, loopVars, firstRegistered, lookup, resolution, serviceVars>>

\* An attempt has failed with error e: the rate limiter retries it while
\* the ceiling allows; otherwise the error reaches the catch block of
\* generateAction.
ApiFailed(p, e) ==
    IF p.limiter /\ shouldRetry(p.attempts, p.maxRetries)
    THEN [p EXCEPT !.phase = "backoff", !.lastError = e]
    ELSE [p EXCEPT !.phase = "done", !.lastError = e,
                   !.out = catchProviderError(e)]

\* One apiCall() up to the end of its first await: fetch resolves with a
\* response, OK or not, or rejects.
ApiCall ==
    /\ provider.phase = "attempt"
    /\ provider.attempts < MaxAttempts
    /\ LET p == [provider EXCEPT !.attempts = @ + 1] IN
       \/ \E ok \in BOOLEAN :
            provider' = [p EXCEPT !.phase = "body", !.responseOk = ok]
       \/ provider' = ApiFailed(p, "fetch failed")
    /\ UNCHANGED <<pc, loopVars, firstRegistered, lookup, resolution, serviceVars>>

\* The rest of apiCall(): response.json() is awaited. For a response that
\* is not OK the API error is thrown; otherwise the body is parsed into a
\* decision, or reading or parsing it throws.
ReadBody ==
    /\ provider.phase = "body"
    /\ \/ /\ ~provider.responseOk
          /\ provider' = ApiFailed(provider, "OpenRouter API error: 500")
       \/ /\ provider.responseOk
          /\ \/ \E d \in Decisions :
                  provider' = [provider EXCEPT !.phase = "done",
                                  !.lastError = Undefined,
                                  !.out = [threw |-> FALSE, decision |-> d]]
             \/ provider' = ApiFailed(provider, "invalid response")
    /\ UNCHANGED <<pc, loopVars, firstRegistered, lookup, resolution, serviceVars>>

\* The rate limiter waits before the next attempt, and lengthens the delay.
Backoff ==
    /\ provider.phase = "backoff"
    /\ provider' = [provider EXCEPT !.phase = "attempt",
                                    !.delays = Append(provider.delays, provider.delay),
                                    !.delay = nextDelay(provider.delay,
                                                        provider.retryMultiplier)]
    /\ UNCHANGED <<pc, loopVars, firstRegistered, lookup, resolution, serviceVars>>

\* Every awaited call settles and every timer fires: a call in progress is
\* carried on.
ProviderSpec ==
    /\ ProviderInit
    /\ [][GenerateActionCall \/ LimiterAdmits \/ ApiCall \/ ReadBody
               \/ Backoff]_vars
    /\ WF_vars(LimiterAdmits)
    /\ WF_vars(ApiCall)
    /\ WF_vars(ReadBody)
    /\ WF_vars(Backoff)

\* ------------------------------------------------ session identifiers
\* What a service specification leaves alone besides the other services.
restVars == <<pc, loopVars, firstRegistered, lookup, resolution, provider,
              exported, highlighter, cookieFiles>>

SessionInit ==
    /\ pc = "sessions"
    /\ LoopAtRest
    /\ tableStep = 0
    /\ firstRegistered = registry
    /\ lookup = NoLookup
    /\ resolution = NoResolution
    /\ provider = NoProvider
    /\ ServicesInit

\* Time passes.
ClockTick ==
    /\ pc = "sessions"
    /\ sessions.now + TickMs <= MaxClock
    /\ sessions' = [sessions EXCEPT !.now = @ + TickMs]
    /\ UNCHANGED <<restVars, stable, server, endpointVars>>

\* new Agent(options): this.sessionId = this.generateSessionId() in the
\* constructor.
NewAgent ==
    /\ pc = "sessions"
    /\ Len(sessions.agents) < MaxAgents
    /\ sessions' = [sessions EXCEPT !.agents =
                        Append(@, [sessionId |-> generateSessionId(sessions.now),
                                   runs |-> 0])]
    /\ UNCHANGED <<restVars, stable, server, endpointVars>>

\* A run() of Agent a reaches saveResults(): the record of this run is
\* written to the file named after the Agent's session identifier.
SaveSession ==
    /\ pc = "sessions"
    /\ \E a \in DOMAIN sessions.agents :
        LET agent == sessions.agents[a]
            thisRun == <<a, agent.runs + 1>> IN
        /\ agent.runs < MaxRuns
        /\ sessions' = [sessions EXCEPT
                            !.agents[a].runs = @ + 1,
                            !.files = writeFileSync(@, logPath(agent.sessionId),
                                                    thisRun),
                            !.written = @ \cup {thisRun}]
    /\ UNCHANGED <<restVars, stable, server, endpointVars>>

SessionSpec == SessionInit /\ [][\/ ClockTick
                                 \/ NewAgent
                                 \/ SaveSession]_vars

\* ----------------------------------------------------- page stability
\* await this.page.waitForTimeout(500) after the load-state wait.
SettleMs == 500

\* await this.page.waitForTimeout(2000) in the catch block.
ExtraDelayMs == 2000

StableInit ==
    /\ pc = "stable"
    /\ LoopAtRest
    /\ tableStep = 0
    /\ firstRegistered = registry
    /\ lookup = NoLookup
    /\ resolution = NoResolution
    /\ provider = NoProvider
    /\ ServicesInit

\* The page is closed (by the user, or the browser is lost).
ClosePage ==
    /\ pc = "stable"
    /\ stable.page = "live"
    /\ stable' = [stable EXCEPT !.page = "closed"]
    /\ UNCHANGED <<restVars, sessions, server, endpointVars>>

\* getPageState() is called and enters waitForPageStable().
GetPageStateCall ==
    /\ pc = "stable"
    /\ stable.phase \in {"idle", "extracted", "threw"}
    /\ stable.calls < MaxCalls
    /\ stable' = [NoStable EXCEPT !.phase = "load", !.page = stable.page,
                                  !.calls = stable.calls + 1,
                                  !.returned = stable.returned,
                                  !.waited = stable.waited]
    /\ UNCHANGED <<restVars, sessions, server, endpointVars>>

\* The load-state wait without the surrounding try: its timeout leaves
\* waitForPageStable() as an exception.
WaitForLoadStateUncaught ==
    /\ pc = "stable"
    /\ stable.phase = "load"
    /\ IF stable.page = "closed"
       THEN stable' = [stable EXCEPT !.phase = "threw"]
       ELSE \E o \in {"ok", "timeout"} :
                stable' = IF o = "ok" THEN [stable EXCEPT !.phase = "settle"]
                          ELSE [stable EXCEPT !.phase = "threw",
                                              !.loadTimedOut = TRUE]
    /\ UNCHANGED <<restVars, sessions, server, endpointVars>>

\* try { await this.page.waitForLoadState('domcontentloaded', { timeout }) }
\* A timeout, or a closed page, throws into the catch block.
WaitForLoadState ==
    /\ pc = "stable"
    /\ stable.phase = "load"
    /\ IF stable.page = "closed"
       THEN stable' = [stable EXCEPT !.phase = "catch"]
       ELSE \E o \in {"ok", "timeout"} :
                stable' = IF o = "ok" THEN [stable EXCEPT !.phase = "settle"]
                          ELSE [stable EXCEPT !.phase = "catch",
                                              !.loadTimedOut = TRUE]
    /\ UNCHANGED <<restVars, sessions, server, endpointVars>>

\* await this.page.waitForTimeout(500);
Settle ==
    /\ pc = "stable"
    /\ stable.phase = "settle"
    /\ stable' = IF stable.page = "closed"
                 THEN [stable EXCEPT !.phase = "catch"]
                 ELSE [stable EXCEPT !.phase = "networkidle",
                                     !.waits = Append(@, SettleMs),
                                     !.waited = @ + SettleMs]
    /\ UNCHANGED <<restVars, sessions, server, endpointVars>>

\* await this.page.waitForLoadState('networkidle', { timeout }).catch(() => {})
\* Its rejection, by timeout or by a closed page, is swallowed.
WaitForNetworkIdle ==
    /\ pc = "stable"
    /\ stable.phase = "networkidle"
    /\ IF stable.page = "closed"
       THEN stable' = [stable EXCEPT !.phase = "content"]
       ELSE \E o \in {"ok", "timeout"} :
                stable' = [stable EXCEPT !.phase = "content",
                                         !.idleTimedOut = (o = "timeout")]
    /\ UNCHANGED <<restVars, sessions, server, endpointVars>>

\* catch (error) { console.log(...); await this.page.waitForTimeout(2000); }
\* On a closed page this wait throws out of waitForPageStable().
ExtraDelay ==
    /\ pc = "stable"
    /\ stable.phase = "catch"
    /\ stable' = IF stable.page = "closed"
                 THEN [stable EXCEPT !.phase = "threw"]
                 ELSE [stable EXCEPT !.phase = "content",
                                     !.waits = Append(@, ExtraDelayMs),
                                     !.waited = @ + ExtraDelayMs]
    /\ UNCHANGED <<restVars, sessions, server, endpointVars>>

\* const html = await this.page.content(); simplifyHTML(...); return {...}
PageContent ==
    /\ pc = "stable"
    /\ stable.phase = "content"
    /\ stable' = IF stable.page = "closed"
                 THEN [stable EXCEPT !.phase = "threw"]
                 ELSE [stable EXCEPT !.phase = "extracted", !.returned = @ + 1]
    /\ UNCHANGED <<restVars, sessions, server, endpointVars>>

StableSpec == StableInit /\ [][\/ ClosePage
                               \/ GetPageStateCall
                               \/ WaitForLoadState
                               \/ Settle
                               \/ WaitForNetworkIdle
                               \/ ExtraDelay
                               \/ PageContent]_vars

\* -------------------------------------------------------- POST /api/run
\* The goal of a request body: absent, the empty string, another value
\* that JavaScript takes as false (0, NaN, null, false), a text, or a
\* truthy value that is not a string (the documented body has goal: string).
GoalKinds == {"missing", "empty", "zero", "text", "number"}

\* !goal
falsy(goal) == goal \in {"missing", "empty", "zero"}

\* res.status(code).json(body): one response sent on the connection.
Response(code, body) == [status |-> code, body |-> body]

\* A request as received: no session started, nothing sent back. Its
\* options are an object (`options = {}` when the body has none) or null,
\* which the default of the destructuring does not replace.
Request(goal, options) ==
    [goal |-> goal, options |-> options, phase |-> "received", sessions |-> 0,
     responses |-> <<>>]

\* runAgent(goal, options) is called: it starts one agent session and
\* settles later.
runAgent(req) == [req EXCEPT !.phase = "running", !.sessions = @ + 1]

\* runAgent resolves with the result of the session or rejects.
RunAgentOutcomes == {"result", "throws"}

ServerInit ==
    /\ pc = "server"
    /\ LoopAtRest
    /\ tableStep = 0
    /\ firstRegistered = registry
    /\ lookup = NoLookup
    /\ resolution = NoResolution
    /\ provider = NoProvider
    /\ ServicesInit

\* A POST /api/run request arrives.
Post ==
    /\ pc = "server"
    /\ Len(server.requests) < MaxRequests
    /\ \E goal \in GoalKinds, options \in {"object", "null"} :
        server' = [server EXCEPT !.requests = Append(@, Request(goal, options))]
    /\ UNCHANGED <<restVars, sessions, stable, endpointVars>>

\* The handler with the 400 response not returned from: it goes on into
\* the try block, where goal.substring throws on a missing goal and the
\* empty goal is handed to runAgent.
HandleRunWithoutReturn ==
    /\ pc = "server"
    /\ \E r \in DOMAIN server.requests :
        LET req == server.requests[r]
            answered == IF falsy(req.goal)
                        THEN [req EXCEPT !.responses =
                                 Append(@, Response(400, "goal is required"))]
                        ELSE req IN
        /\ req.phase = "received"
        /\ server' = [server EXCEPT !.requests[r] =
                IF req.goal \in {"missing", "zero", "number"}
                      \/ req.options = "null"
                THEN [answered EXCEPT !.phase = "done",
                         !.responses = Append(@, Response(500, "TypeError"))]
                ELSE runAgent(answered)]
    /\ UNCHANGED <<restVars, sessions, stable, endpointVars>>

\* The handler up to its first await: without a goal it answers 400 and
\* returns; goal.substring(0, 50) of a goal that is not a string and
\* options.headless of null options throw into the catch block, which
\* answers 500; otherwise runAgent is called.
HandleRun ==
    /\ pc = "server"
    /\ \E r \in DOMAIN server.requests :
        LET req == server.requests[r] IN
        /\ req.phase = "received"
        /\ server' = [server EXCEPT !.requests[r] =
                IF falsy(req.goal)
                THEN [req EXCEPT !.phase = "done",
                         !.responses = Append(@, Response(400, "goal is required"))]
                ELSE IF req.goal = "number" \/ req.options = "null"
                THEN [req EXCEPT !.phase = "done",
                         !.responses = Append(@, Response(500, "TypeError"))]
                ELSE runAgent(req)]
    /\ UNCHANGED <<restVars, sessions, stable, endpointVars>>

\* The awaited runAgent settles: res.json(result), or the catch block
\* answers 500 with the message of the error.
RunSettles ==
    /\ pc = "server"
    /\ \E r \in DOMAIN server.requests, o \in RunAgentOutcomes :
        LET req == server.requests[r] IN
        /\ req.phase = "running"
        /\ server' = [server EXCEPT !.requests[r] =
                [req EXCEPT !.phase = "done",
                    !.responses = Append(@, IF o = "result"
                                            THEN Response(200, "result")
                                            ELSE Response(500, "agent error"))]]
    /\ UNCHANGED <<restVars, sessions, stable, endpointVars>>

ServerSpec == ServerInit /\ [][\/ Post
                               \/ HandleRun
                               \/ RunSettles]_vars

\* ------------------------------------------------------------ /mcp/sse
McpInit ==
    /\ pc = "mcp"
    /\ LoopAtRest
    /\ ComponentsInit

\* GET /mcp/sse: mcpTransport = new SSEServerTransport('/mcp/messages', res)
\* A connection is named by its number; the module keeps one transport.
OpenSse ==
    /\ pc = "mcp"
    /\ mcp.opened < MaxClients
    /\ mcp' = [mcp EXCEPT !.opened = @ + 1, !.open = @ \cup {mcp.opened + 1},
                          !.mcpTransport = mcp.opened + 1]
    /\ UNCHANGED <<restVars, sessions, stable, server, sessionMap, skill, drag>>

\* A client closes its SSE connection; the server has no handler for it.
CloseSse ==
    /\ pc = "mcp"
    /\ \E c \in mcp.open : mcp' = [mcp EXCEPT !.open = @ \ {c}]
    /\ UNCHANGED <<restVars, sessions, stable, server, sessionMap, skill, drag>>

\* POST /mcp/messages by the client of an open connection: answered 400
\* when no transport exists, otherwise handed to mcpTransport.
PostMessage ==
    /\ pc = "mcp"
    /\ Len(mcp.messages) < MaxMessages
    /\ \E c \in mcp.open :
        mcp' = [mcp EXCEPT !.messages =
                   Append(@, [from |-> c, handledBy |-> mcp.mcpTransport])]
    /\ UNCHANGED <<restVars, sessions, stable, server, sessionMap, skill, drag>>

McpSpec == McpInit /\ [][OpenSse \/ CloseSse \/ PostMessage]_vars

\* -------------------------------------------------------- /api/session
SessionMapInit ==
    /\ pc = "sessionMap"
    /\ LoopAtRest
    /\ ComponentsInit

\* Date.now() advances.
MapClockTick ==
    /\ pc = "sessionMap"
    /\ sessionMap.now + TickMs <= MaxClock
    /\ sessionMap' = [sessionMap EXCEPT !.now = @ + TickMs]
    /\ UNCHANGED <<restVars, sessions, stable, server, mcp, skill, drag>>

\* POST /api/session: the handler runs without awaiting anything; it stores
\* the new session under session_<Date.now()>, or answers 500 when the
\* BrowserAutomationAPI cannot be constructed.
CreateSession ==
    /\ pc = "sessionMap"
    /\ Len(sessionMap.created) < MaxCreated
    /\ \E o \in {"ok", "throws"} :
        LET id == newSessionId(sessionMap.now)
            session == Len(sessionMap.created) + 1 IN
        sessionMap' =
            IF o = "throws" THEN sessionMap
            ELSE [sessionMap EXCEPT
                     !.entries = mapSet(@, id, session),
                     !.created = Append(@, [id |-> id, closed |-> FALSE])]
    /\ UNCHANGED <<restVars, sessions, stable, server, mcp, skill, drag>>

\* DELETE /api/session/:id up to its await: sessions.get(id) finds the
\* session and session.api.close() is called. (An id with no entry is
\* answered 404 and changes nothing.)
DeleteSession ==
    /\ pc = "sessionMap"
    /\ Len(sessionMap.closing) < MaxDeletes
    /\ \E e \in sessionMap.entries :
        sessionMap' = [sessionMap EXCEPT
                          !.closing = Append(@, [id |-> e.id,
                                                 session |-> e.session,
                                                 settled |-> FALSE])]
    /\ UNCHANGED <<restVars, sessions, stable, server, mcp, skill, drag>>

\* The awaited close() settles: sessions.delete(id) removes whatever the
\* key holds by now and the request is answered, or close() rejected and
\* the catch block answers 500 with the entry left in place.
CloseSettles ==
    /\ pc = "sessionMap"
    /\ \E c \in DOMAIN sessionMap.closing, o \in {"ok", "throws"} :
        LET req == sessionMap.closing[c] IN
        /\ ~req.settled
        /\ sessionMap' =
            IF o = "throws"
            THEN [sessionMap EXCEPT !.closing[c].settled = TRUE]
            ELSE [sessionMap EXCEPT
                     !.closing[c].settled = TRUE,
                     !.entries = mapDelete(@, req.id),
                     !.created[req.session].closed = TRUE]
    /\ UNCHANGED <<restVars, sessions, stable, server, mcp, skill, drag>>

SessionMapSpec ==
    SessionMapInit /\ [][MapClockTick \/ CreateSession \/ DeleteSession
                            \/ CloseSettles]_vars

\* ---------------------------------------------------------- /api/skill
\* The two endpoints and what a request to each can carry: a command
\* text, none, or a truthy command that is not a string for /api/skill, a
\* known or an unknown skill type for /api/skill/:type.
SkillInputs ==
    {[endpoint |-> "skill", input |-> i] : i \in {"command", "missing", "number"}}
    \cup {[endpoint |-> "skill_type", input |-> i] : i \in {"known", "unknown"}}

\* A request as received: let browserManager = null, nothing sent back.
SkillRequest(in) ==
    [endpoint |-> in.endpoint, input |-> in.input, phase |-> "received",
     browserManager |-> "null", response |-> 0]

SkillInit ==
    /\ pc = "skill"
    /\ LoopAtRest
    /\ ComponentsInit

\* A POST /api/skill or POST /api/skill/:type request arrives.
SkillPost ==
    /\ pc = "skill"
    /\ Len(skill.requests) < MaxSkillRequests
    /\ \E in \in SkillInputs :
        skill' = [skill EXCEPT !.requests = Append(@, SkillRequest(in))]
    /\ UNCHANGED <<restVars, sessions, stable, server, mcp, sessionMap, drag>>

\* The handler up to its first await. Without a command /api/skill answers
\* 400 before the try block, and command.substring of a command that is
\* not a string throws before it: the handler ends with nothing sent. In
\* the try block the BrowserManager is constructed, then the adapter and
\* the orchestrator; either may throw into the catch block (500), and
\* createAdapter ends the process (process.exit(1) in validateConfig) for
\* an unknown provider or a missing API key. /api/skill/:type returns 404
\* from inside the try block for an unknown type. Otherwise
\* browserManager.launch() is awaited.
SkillHandle ==
    /\ pc = "skill"
    /\ \E r \in DOMAIN skill.requests :
        LET req == skill.requests[r]
            early == req.input \in {"missing", "number"} IN
        /\ req.phase = "received"
        /\ \E o \in {"ok", "manager_throws", "adapter_throws", "adapter_exits"} :
            /\ pc' = IF ~early /\ o = "adapter_exits" THEN "exited" ELSE pc
            /\ skill' = [skill EXCEPT !.requests[r] =
                IF req.input = "missing"
                THEN [req EXCEPT !.phase = "done", !.response = 400]
                ELSE IF req.input = "number"
                THEN [req EXCEPT !.phase = "done"]
                ELSE IF o = "manager_throws"
                THEN [req EXCEPT !.phase = "finally", !.response = 500]
                ELSE IF o = "adapter_exits"
                THEN [req EXCEPT !.phase = "exited",
                                 !.browserManager = "created"]
                ELSE IF o = "adapter_throws"
                THEN [req EXCEPT !.phase = "finally", !.response = 500,
                                 !.browserManager = "created"]
                ELSE IF req.input = "unknown"
                THEN [req EXCEPT !.phase = "finally", !.response = 404,
                                 !.browserManager = "created"]
                ELSE [req EXCEPT !.phase = "launching",
                                 !.browserManager = "created"]]
    /\ UNCHANGED <<loopVars, firstRegistered, lookup, resolution, provider,
                   exported, highlighter, cookieFiles>>
    /\ UNCHANGED <<sessions, stable, server, mcp, sessionMap, drag>>

\* const { page } = await browserManager.launch(), then the executor and
\* the extractor are constructed and the skill is started.
SkillLaunch ==
    /\ pc = "skill"
    /\ \E r \in DOMAIN skill.requests, o \in {"ok", "throws"} :
        LET req == skill.requests[r] IN
        /\ req.phase = "launching"
        /\ skill' = [skill EXCEPT !.requests[r] =
                IF o = "ok"
                THEN [req EXCEPT !.phase = "executing",
                                 !.browserManager = "launched"]
                ELSE [req EXCEPT !.phase = "finally", !.response = 500]]
    /\ UNCHANGED <<restVars, sessions, stable, server, mcp, sessionMap, drag>>

\* The awaited skill settles: res.json(result), or the catch block answers
\* 500.
SkillSettles ==
    /\ pc = "skill"
    /\ \E r \in DOMAIN skill.requests, o \in {"result", "throws"} :
        LET req == skill.requests[r] IN
        /\ req.phase = "executing"
        /\ skill' = [skill EXCEPT !.requests[r] =
                [req EXCEPT !.phase = "finally",
                            !.response = IF o = "result" THEN 200 ELSE 500]]
    /\ UNCHANGED <<restVars, sessions, stable, server, mcp, sessionMap, drag>>

\* The close of the browser manager as the last statement of the try
\* block: reached only when the skill has returned its result.
SkillCloseAtEndOfTry ==
    /\ pc = "skill"
    /\ \E r \in DOMAIN skill.requests :
        LET req == skill.requests[r] IN
        /\ req.phase = "finally"
        /\ skill' = [skill EXCEPT !.requests[r] =
                IF req.browserManager # "null" /\ req.response = 200
                THEN [req EXCEPT !.phase = "done", !.browserManager = "closed"]
                ELSE [req EXCEPT !.phase = "done"]]
    /\ UNCHANGED <<restVars, sessions, stable, server, mcp, sessionMap, drag>>

\* finally { if (browserManager) { await browserManager.close(); } }
SkillFinally ==
    /\ pc = "skill"
    /\ \E r \in DOMAIN skill.requests :
        LET req == skill.requests[r] IN
        /\ req.phase = "finally"
        /\ skill' = [skill EXCEPT !.requests[r] =
                IF req.browserManager # "null"
                THEN [req EXCEPT !.phase = "done", !.browserManager = "closed"]
                ELSE [req EXCEPT !.phase = "done"]]
    /\ UNCHANGED <<restVars, sessions, stable, server, mcp, sessionMap, drag>>

SkillSpec ==
    SkillInit /\ [][SkillPost \/ SkillHandle \/ SkillLaunch
                      \/ SkillSettles \/ SkillFinally]_vars

\* ---------------------------------------------------------- mouse_drag
\* The failure result of MouseDragAction.execute.
DragFailure(text) == [success |-> FALSE, error |-> text]

\* catch (error) { return { success: false, error: `Mouse drag failed: ...` } }
DragCaught(d) ==
    [d EXCEPT !.phase = "returned",
              !.result = DragFailure("Mouse drag failed")]

DragInit ==
    /\ pc = "drag"
    /\ LoopAtRest
    /\ ComponentsInit

\* execute(action) up to its first await: the typeof check of the four
\* coordinates returns a failure before anything is issued.
DragExecute ==
    /\ pc = "drag"
    /\ drag.phase \in {"idle", "returned"}
    /\ drag.calls < MaxDrags
    /\ \E in \in {"numbers", "not_numbers"} :
        drag' = IF in = "not_numbers"
                THEN [drag EXCEPT !.phase = "returned", !.calls = @ + 1,
                        !.issued = 0,
                        !.result = DragFailure("All coordinates must be numbers")]
                ELSE [drag EXCEPT !.phase = "move_start", !.calls = @ + 1,
                        !.issued = 0, !.result = Null]
    /\ UNCHANGED <<restVars, sessions, stable, server, mcp, sessionMap, skill>>

\* await this.page.mouse.move(startX, startY)
DragMoveToStart ==
    /\ pc = "drag"
    /\ drag.phase = "move_start"
    /\ \E o \in {"ok", "throws"} :
        drag' = IF o = "ok"
                THEN [drag EXCEPT !.phase = "down", !.ops = Append(@, "move"),
                                  !.issued = @ + 1]
                ELSE DragCaught(drag)
    /\ UNCHANGED <<restVars, sessions, stable, server, mcp, sessionMap, skill>>

\* await this.page.mouse.down()
DragDown ==
    /\ pc = "drag"
    /\ drag.phase = "down"
    /\ \E o \in {"ok", "throws"} :
        drag' = IF o = "ok"
                THEN [drag EXCEPT !.phase = "move_end", !.pressed = TRUE,
                                  !.ops = Append(@, "down"),
                                  !.issued = @ + 1]
                ELSE DragCaught(drag)
    /\ UNCHANGED <<restVars, sessions, stable, server, mcp, sessionMap, skill>>

\* await this.page.mouse.move(endX, endY, { steps: 10 })
DragMoveToEnd ==
    /\ pc = "drag"
    /\ drag.phase = "move_end"
    /\ \E o \in {"ok", "throws"} :
        drag' = IF o = "ok"
                THEN [drag EXCEPT !.phase = "up", !.ops = Append(@, "move"),
                                  !.issued = @ + 1]
                ELSE DragCaught(drag)
    /\ UNCHANGED <<restVars, sessions, stable, server, mcp, sessionMap, skill>>

\* await this.page.mouse.up(), then return { success: true, message }
DragUp ==
    /\ pc = "drag"
    /\ drag.phase = "up"
    /\ \E o \in {"ok", "throws"} :
        drag' = IF o = "ok"
                THEN [drag EXCEPT !.phase = "returned", !.pressed = FALSE,
                                  !.ops = Append(@, "up"), !.issued = @ + 1,
                                  !.result = [success |-> TRUE, error |-> Undefined]]
                ELSE DragCaught(drag)
    /\ UNCHANGED <<restVars, sessions, stable, server, mcp, sessionMap, skill>>

DragSpec ==
    DragInit /\ [][DragExecute \/ DragMoveToStart \/ DragDown
                     \/ DragMoveToEnd \/ DragUp]_vars

\* ---------------------------------------------- the classification lists
\* The process right after action-types was imported: the registry holds
\* the plugins of the directory and the lists were just built from it.
ListsInit ==
    /\ pc = "executor"
    /\ runs = 0
    /\ registry = ShippedPlugins
    /\ maxSteps = 0
    /\ waitBetweenActions = 0
    /\ headless = FALSE
    /\ browser = "null"
    /\ elementMap = {}
    /\ currentStep = 0
    /\ actionLog = <<>>
    /\ extractedData = Undefined
    /\ outputFormat = Undefined
    /\ outputTitle = Undefined
    /\ pageState = {}
    /\ rawAction = NoDecision
    /\ action = NoDecision
    /\ result = NoResult
    /\ caught = NoError
    /\ saved = NoRecord
    /\ saves = 0
    /\ logAtStart = 0
    /\ stepAtStart = 0
    /\ iterations = 0
    /\ handlerThrew = FALSE
    /\ handlerInvoked = FALSE
    /\ handlers = NoHandlers
    /\ ComponentsInit

ListsSpec ==
    ListsInit /\ [][Register \/ LoadPlugins \/ Lookup]_vars

\* ================================================================= claims

\* The run in progress (or just ended) started on a freshly constructed Agent.
FreshRun == runs >= 1 /\ logAtStart = 0 /\ stepAtStart = 0

\* No entry of the log is a terminal action or an error entry.
NoTerminalNoError ==
    \A i \in 1..Len(actionLog) :
        /\ ~isTerminal(registry, actionLog[i].action_type)
        /\ actionLog[i].action_type # "error"

\* C1 (as stated): the step counter grows by exactly 1 per loop iteration,
\* and a run of a fresh Agent in which no terminal action is chosen and no
\* error occurs ends after exactly maxSteps iterations with exactly maxSteps
\* log entries and status max_steps_reached, for every configured maxSteps.
StepBudgetAnyMaximum ==
    /\ currentStep = stepAtStart + iterations
    /\ (pc = "returned" /\ FreshRun /\ NoTerminalNoError)
        => /\ iterations = maxSteps
           /\ Len(actionLog) = maxSteps
           /\ saved.status = "max_steps_reached"

\* C1 (amended): the step counter grows by exactly 1 per loop iteration, and
\* a run of a fresh Agent in which no terminal action is chosen and no error
\* occurs ends after exactly maxSteps iterations with exactly maxSteps log
\* entries; its status is max_steps_reached when maxSteps >= 1 and
\* no_actions when maxSteps is 0.
StepBudgetExact ==
    /\ currentStep = stepAtStart + iterations
    /\ (pc = "returned" /\ FreshRun /\ NoTerminalNoError)
        => /\ iterations = maxSteps
           /\ Len(actionLog) = maxSteps
           /\ saved.status = IF maxSteps >= 1 THEN "max_steps_reached" ELSE "no_actions"

\* A fresh run with maxSteps >= 2 that used the whole budget has returned.
StepBudgetWitness ==
    /\ pc = "returned" /\ FreshRun /\ NoTerminalNoError
    /\ maxSteps >= 2 /\ Len(actionLog) = maxSteps
    /\ saved.status = "max_steps_reached"

\* C2: once an entry of a terminal kind has been appended in this run, it is
\* the last entry of the log, no later step has been started, and the run
\* stands at the terminal check or beyond the loop (never at the
\* inter-action wait or in a phase of a step), whatever the outcome was.
TerminalEndsLoop ==
    \A i \in (logAtStart + 1)..Len(actionLog) :
        isTerminal(registry, actionLog[i].action_type)
        => /\ i = Len(actionLog)
           /\ actionLog[i].step = currentStep
           /\ pc \in {"check", "finally", "save", "returned", "threw"}

\* A terminal action failed while budget was left, and the run has returned.
TerminalFailureWitness ==
    /\ pc = "returned" /\ Len(actionLog) > logAtStart
    /\ isTerminal(registry, actionLog[Len(actionLog)].action_type)
    /\ ~actionLog[Len(actionLog)].result.success
    /\ currentStep < maxSteps

\* C3: the loop makes at most maxSteps iterations in a run and run() ends
\* by returning a result, never by throwing.
RunReturnsResult ==
    /\ iterations <= maxSteps
    /\ pc # "threw"

\* C4: when run() is over, on whatever path, no browser it opened is still
\* open: close() has been applied to it (or the browser was already lost).
BrowserReleasedOnExit ==
    pc \in {"save", "returned", "threw"} => browser # "open"

\* A run that went through the catch block has returned with the browser closed.
BrowserClosedAfterErrorWitness ==
    /\ pc = "returned" /\ browser = "closed"
    /\ Len(actionLog) > logAtStart
    /\ actionLog[Len(actionLog)].action_type = "error"

\* C5: when run() is over, a record has been written for this run and it
\* holds every log entry appended so far.
RecordAlwaysPersisted ==
    pc \in {"returned", "threw"} => (saves = runs /\ saved.actionLog = actionLog)

\* C6: the status written with the record is one of the five declared values.
StatusInDeclaredSet ==
    saves > 0 => saved.status \in {"completed", "terminated", "error",
                                   "max_steps_reached", "no_actions"}

\* C7: once a run of the Agent has been recorded as completed, terminated,
\* error or max_steps_reached, the step counter and the action log never
\* change again, also when run() is invoked again.
TerminalAbsorbing ==
    [][saved.status \in {"completed", "terminated", "error", "max_steps_reached"}
        => (currentStep' = currentStep /\ actionLog' = actionLog)]_vars

IsPrefix(s, t) == Len(s) <= Len(t) /\ SubSeq(t, 1, Len(s)) = s

NonDecreasingSteps(log) ==
    \A i \in 1..(Len(log) - 1) : log[i].step <= log[i + 1].step

\* C8: every operation leaves the entries already in the log where and what
\* they were (the old log is a prefix of the new one), and the step numbers
\* along the log never decrease.
LogAppendOnly ==
    [][IsPrefix(actionLog, actionLog') /\ NonDecreasingSteps(actionLog')]_vars

\* A log of an action entry of step 1, a later action entry and an error
\* entry added by the catch block.
LogOrderWitness ==
    /\ Len(actionLog) >= 3
    /\ actionLog[1].step = 1 /\ actionLog[2].step = 2
    /\ actionLog[Len(actionLog)].action_type = "error"

\* The parts of C9 before the loop head: a throwing handler makes execute
\* return a failure outcome, the entry appended for the step has success
\* false and an error text, and the terminal check then ends the loop for
\* a terminal kind and continues it otherwise.
ThrowIsLogged ==
    /\ (pc = "execute" /\ handlerThrew')
        => (pc' = "log" /\ ~result'.success /\ result'.error # NoError)
    /\ (pc = "log" /\ handlerThrew)
        => /\ Len(actionLog') = Len(actionLog) + 1
           /\ actionLog'[Len(actionLog')].step = currentStep
           /\ ~actionLog'[Len(actionLog')].result.success
           /\ actionLog'[Len(actionLog')].result.error # NoError
    /\ (pc = "check" /\ handlerThrew)
        => IF isTerminal(registry, action.action_type)
           THEN pc' = "finally"
           ELSE pc' \in {"wait", "loop"}

\* C9: when the handler of the action of step k throws, execute returns a
\* failure outcome, the entry of step k has success false and an error
\* text, and after a non-terminal kind the loop goes on to step k+1.
HandlerThrowGoesOn ==
    [][/\ ThrowIsLogged
       /\ (pc = "loop" /\ handlerThrew)
           => (pc' = "extract" /\ currentStep' = currentStep + 1)]_vars

\* C10: no exception leaves execute; for a kind with no registered handler
\* the outcome is a failure whose error names the kind and lists every
\* registered kind, and no handler was run.
ExecuteNeverThrows ==
    /\ pc # "escaped"
    /\ (pc = "executed" /\ action.action_type \notin getTypes(registry))
        => /\ ~result.success
           /\ result.error.msg = "Unknown action type"
           /\ result.error.kind = action.action_type
           /\ result.error.available = getTypes(registry)
           /\ ~handlerInvoked

\* C11: every kind that was ever registered is registered with the
\* requiresElement and isTerminal values it had when it was first
\* registered, whatever register and loadPlugins calls came later.
MetadataFixedAtRegistration ==
    \A k \in DOMAIN firstRegistered :
        /\ k \in getTypes(registry)
        /\ requiresElement(registry, k) = firstRegistered[k].requiresElement
        /\ isTerminal(registry, k) = firstRegistered[k].isTerminal

\* C12: no operation removes a kind from the registry, and a lookup leaves
\* the registry exactly as it was.
RegistryAdditiveOnly ==
    [][/\ getTypes(registry) \subseteq getTypes(registry')
       /\ pc' = "looked" => registry' = registry]_vars

\* The shipped kinds plus one kind registered later, looked up afterwards.
RegistryGrewWitness ==
    /\ pc = "looked" /\ lookup.kind = "abort" /\ lookup.found # Null
    /\ getTypes(registry) = getTypes(BuiltinPlugins) \cup {"abort"}

\* C13: a lookup of a kind that is not registered returns: get gives null,
\* requiresElement and isTerminal give false.
UnknownLookupIsNull ==
    (pc = "looked" /\ lookup.kind \notin getTypes(registry))
        => /\ lookup.found = Null
           /\ lookup.requiresElement = FALSE
           /\ lookup.isTerminal = FALSE

\* A legacy kind without a plugin has been looked up.
UnknownLookupWitness ==
    /\ pc = "looked" /\ lookup.kind = "scroll"
    /\ "scroll" \notin getTypes(registry) /\ lookup.found = Null

\* Whether a lookup is made at all for a descriptor: its attribute is set
\* (and, for the input type, the declared tag is input).
Applies(info, strategy) ==
    CASE strategy = "xpath" -> info.xpath
      [] strategy = "name" -> info.name
      [] strategy = "aria-label" -> info.ariaLabel
      [] strategy = "type" -> info.type /\ info.tag = "input"

\* The place of a lookup in the fixed order.
Position(strategy) == CHOOSE i \in 1..Len(Strategies) : Strategies[i] = strategy

\* C14: the lookups issued follow the order structural locator, name,
\* aria-label, input type; every lookup but the last one issued found
\* nothing; every applicable lookup before the last one issued was issued;
\* and the handle returned is the one of the last lookup issued, which is
\* the first that found an element.
FirstMatchInFixedOrder ==
    (pc = "resolved" /\ resolution.elementId \in DOMAIN resolution.table)
        => LET info == resolution.table[resolution.elementId]
               q == resolution.out.queried
               all == {Strategies[i] : i \in 1..Len(Strategies)}
           IN /\ \A i, j \in 1..Len(q) : i < j => Position(q[i]) < Position(q[j])
              /\ Len(resolution.answers) = Len(q)
              /\ \A i \in 1..(Len(q) - 1) : resolution.answers[i] # "handle"
              /\ \A i \in 1..Len(q) : \A st \in all :
                    (Applies(info, st) /\ Position(st) < Position(q[i]))
                        => \E j \in 1..Len(q) : q[j] = st
              /\ \A i \in 1..Len(q) : Applies(info, q[i])
              /\ resolution.out.handle # "null"
                    => /\ resolution.out.handle = q[Len(q)]
                       /\ resolution.answers[Len(q)] = "handle"

\* The structural locator found nothing and the name lookup did: the handle
\* is the one found by name and aria-label was not queried, although the
\* descriptor has one.
NameBeforeAriaLabelWitness ==
    /\ pc = "resolved" /\ resolution.elementId \in DOMAIN resolution.table
    /\ resolution.table[resolution.elementId].ariaLabel
    /\ resolution.out.handle = "name"
    /\ resolution.out.queried = <<"xpath", "name">>

\* Every lookup the descriptor of the resolved id allows was issued.
AllLookupsIssued ==
    \A i \in 1..Len(Strategies) :
        Applies(resolution.table[resolution.elementId], Strategies[i])
            => \E j \in 1..Len(resolution.out.queried) :
                    resolution.out.queried[j] = Strategies[i]

\* A lookup found a live element when it was issued.
SomeLookupMatched ==
    \E i \in 1..Len(resolution.answers) : resolution.answers[i] = "handle"

\* C15: resolving an element id succeeds exactly when the id is in the
\* element table and one of the lookups finds a live element when it is
\* issued; it fails with "not found in map" when the id is absent and with
\* "Could not locate element" when no lookup found an element.
ResolvesIffAnyMatches ==
    (pc = "resolved" /\ resolution.elementId # Undefined)
        => LET absent == resolution.elementId \notin DOMAIN resolution.table
               q == resolution.out.queried
           IN /\ (resolution.out.error = Undefined) <=> SomeLookupMatched
              /\ SomeLookupMatched => resolution.out.handle = q[Len(q)]
              /\ absent <=> resolution.out.error = "not found in map"
              /\ (~absent /\ ~SomeLookupMatched) =>
                    /\ resolution.out.error = "Could not locate element"
                    /\ AllLookupsIssued

\* C15 (amended): ... and with "Could not locate element" when every lookup
\* the descriptor allows was issued and none found an element, a rejected
\* structural lookup counting as one that found nothing; when the name,
\* aria-label or type lookup itself rejects, resolution fails with the
\* error of that lookup and no further lookup is issued.
ResolvesIffSomeStrategyMatches ==
    (pc = "resolved" /\ resolution.elementId # Undefined)
        => LET absent == resolution.elementId \notin DOMAIN resolution.table
               q == resolution.out.queried
               a == resolution.answers
               rejected == /\ a # <<>> /\ a[Len(a)] = "rejects"
                           /\ q[Len(q)] # "xpath"
           IN /\ (resolution.out.error = Undefined) <=> SomeLookupMatched
              /\ SomeLookupMatched => resolution.out.handle = q[Len(q)]
              /\ absent <=> resolution.out.error = "not found in map"
              /\ rejected <=> resolution.out.error = "page error"
              /\ \A i \in 1..(Len(a) - 1) :
                    a[i] = "null" \/ (a[i] = "rejects" /\ q[i] = "xpath")
              /\ (~absent /\ ~SomeLookupMatched /\ ~rejected) =>
                    /\ resolution.out.error = "Could not locate element"
                    /\ AllLookupsIssued

\* The element is found by aria-label only, after the structural locator
\* rejected and the name lookup found nothing, and resolution succeeded.
AriaLabelOnlyWitness ==
    /\ pc = "resolved" /\ resolution.elementId \in DOMAIN resolution.table
    /\ resolution.out.queried = <<"xpath", "name", "aria-label">>
    /\ resolution.answers = <<"rejects", "null", "handle">>
    /\ resolution.out.error = Undefined /\ resolution.out.handle = "aria-label"

\* C16: from the decision of a step to the end of its handler, the table
\* the executor holds is the one extracted in this step.
TableOfCurrentStep ==
    pc \in {"decide", "parse", "highlight", "highlightShown", "toast", "execute"}
        => (tableStep = currentStep /\ elementMap = pageState)

\* The handler of a click is about to run in step 2, on the table of step 2.
SecondStepTableWitness ==
    /\ pc = "execute" /\ currentStep = 2 /\ tableStep = 2
    /\ action.action_type = "click" /\ elementMap = {"e1"}

\* A decision / a log entry that is the adapter's fallback for some error.
IsFallback(d) == \E e \in ProviderErrors : d = FallbackDecision(e)

FallbackEntry(entry) ==
    \E e \in ProviderErrors :
        /\ entry.action_type = "terminate"
        /\ entry.reasoning = FallbackDecision(e).reasoning

HoldsText(text, piece) == \E i \in 1..Len(text) : text[i] = piece

LastEntryIsFallback ==
    Len(actionLog) > logAtStart /\ FallbackEntry(actionLog[Len(actionLog)])

\* C18: when every provider attempt of step k failed (the adapter hands
\* the loop its fallback), the decision is parsed and executed, the entry
\* logged for step k has kind terminate and a reasoning holding the error
\* text, the loop ends in step k, and run returns normally: the finally
\* block goes on to saveResults, which writes a record with status
\* terminated.
ProviderExhaustionTerminates ==
    [][/\ (pc = "parse" /\ IsFallback(rawAction))
            => (pc' = "execute" /\ action' = rawAction)
       /\ (pc = "execute" /\ IsFallback(action)) => pc' = "log"
       /\ (pc = "log" /\ IsFallback(action))
            => /\ Len(actionLog') = Len(actionLog) + 1
               /\ actionLog'[Len(actionLog')].action_type = "terminate"
               /\ actionLog'[Len(actionLog')].step = currentStep
               /\ \E e \in ProviderErrors :
                    /\ action = FallbackDecision(e)
                    /\ HoldsText(actionLog'[Len(actionLog')].reasoning, e)
       /\ (pc = "check" /\ IsFallback(action))
            => (pc' = "finally" /\ currentStep' = currentStep)
       /\ (pc = "finally" /\ LastEntryIsFallback) => pc' = "save"
       /\ (pc = "save" /\ LastEntryIsFallback)
            => /\ pc' = "returned"
               /\ saved'.status = "terminated"
               /\ saved'.actionLog = actionLog]_vars

\* C20: a decision of a requires-element kind whose element reference is
\* missing or is not a key of the element table of the step is rejected by
\* the parser with a ValidationError, and with nothing else.
ParseRejectsUnresolvable ==
    [][(/\ pc = "parse"
        /\ requiresElement(registry, rawAction.action_type)
        /\ rawAction.element_id \notin pageState)
            => (pc' = "catch" /\ caught' = Err("ValidationError"))]_vars

\* A click naming an element that is not in the table was rejected.
UnresolvableReferenceWitness ==
    /\ pc = "catch" /\ caught = Err("ValidationError")
    /\ rawAction.action_type = "click" /\ rawAction.element_id = "e1"
    /\ pageState = {}

\* C17: generateAction always returns; when the API call or the rate
\* limiter failed, what it returns is a decision of kind terminate whose
\* reasoning holds the error text, and otherwise the provider's decision.
AdapterNeverThrows ==
    provider.phase = "done"
        => /\ ~provider.out.threw
           /\ provider.out.decision.action_type # Undefined
           /\ provider.lastError # Undefined
                => /\ provider.out.decision.action_type = "terminate"
                   /\ HoldsText(provider.out.decision.reasoning, provider.lastError)
           /\ provider.lastError = Undefined => provider.out.decision \in Decisions

\* The call has ended with the fallback after a response that could not be
\* parsed.
FallbackReturnedWitness ==
    /\ provider.phase = "done" /\ provider.lastError = "invalid response"
    /\ provider.out.decision = FallbackDecision("invalid response")

\* C19: the attempts of a generateAction call never exceed the configured
\* ceiling, the delays waited between them start at the configured delay
\* and each is the previous one times the configured multiplier, and a call
\* in progress always ends.
RetryBoundedWithBackoff ==
    /\ [](/\ provider.attempts <= provider.maxRetries
          /\ Len(provider.delays) <= provider.attempts
          /\ provider.attempts >= 1 => Len(provider.delays) >= provider.attempts - 1
          /\ Len(provider.delays) >= 1 => provider.delays[1] = RetryDelayMs
          /\ \A i \in 1..(Len(provider.delays) - 1) :
                provider.delays[i + 1] = provider.delays[i] * provider.retryMultiplier)
    /\ (provider.phase \in {"limiter", "attempt", "body", "backoff"}) ~> (provider.phase = "done")

\* A call ended with the fallback after as many attempts as the ceiling
\* allows, with growing delays in between.
RetriesExhaustedWitness ==
    /\ provider.phase = "done" /\ provider.lastError \in ApiErrors
    /\ provider.maxRetries = 3 /\ provider.attempts = 3
    /\ provider.delays = <<1000, 2000>>

\* The ordered action kinds of a log.
KindsOf(log) == [i \in 1..Len(log) |-> log[i].action_type]

\* C21: when run() has returned, reading the record file back gives the
\* step count, the ordered action kinds and the status the session has in
\* memory.
RecordRoundTrip ==
    pc = "returned"
        => LET record == reload(stringify(saved)) IN
           /\ record.totalSteps = currentStep
           /\ KindsOf(record.actionLog) = KindsOf(actionLog)
           /\ record.status = getStatus(actionLog, currentStep, maxSteps)

\* A session with two action entries and an error entry has been saved.
RoundTripWitness ==
    /\ pc = "returned" /\ Len(saved.actionLog) = 3
    /\ KindsOf(reload(stringify(saved)).actionLog) = <<"click", "extract", "error">>
    /\ saved.status = "error"

\* C23: restoring the stored cookies never aborts the run: whatever it
\* meets, the run goes on (to the next cookie file, then to navigation)
\* with no error raised.
CookieFailureNeverFatal ==
    [][(pc \in {"cookies", "addCookies"})
          => (pc' \in {"addCookies", "navigate"} /\ caught' = caught)]_vars

\* The last entry of the log, when there is one, belongs to step k.
LastEntryOfStep(log, k) == log # <<>> /\ log[Len(log)].step = k

\* The positions of the awaited highlight between parse and execute.
Highlighting == {"highlight", "highlightShown", "toast"}

\* C24: the phases of a step follow one another in the order extract,
\* decide, parse, execute, log (an exception leaves the step; the highlight
\* of the chosen element, when there is one, stands between parse and
\* execute and starts no handler); a handler is
\* invoked only in the execute phase, once; and the extraction of the next
\* step starts only from the loop head, after the entry of the step before
\* it was appended.
PhasesInOrder ==
    [][/\ pc = "extract" => pc' \in {"decide", "catch"}
       /\ pc = "decide" => pc' \in {"parse", "catch"}
       /\ pc = "parse" => pc' \in {"highlight", "execute", "catch"}
       /\ pc = "highlight" => pc' \in {"highlightShown", "catch"}
       /\ pc = "highlightShown" => pc' \in {"toast", "catch"}
       /\ pc = "toast" => pc' \in {"execute", "catch"}
       /\ pc \in Highlighting
            => /\ action' = action
               /\ handlerInvoked' = handlerInvoked
               /\ actionLog' = actionLog
       /\ pc = "execute" => pc' \in {"log", "catch"} /\ ~handlerInvoked
       /\ pc = "log" => /\ pc' = "check"
                        /\ Len(actionLog') = Len(actionLog) + 1
                        /\ LastEntryOfStep(actionLog', currentStep)
       /\ handlerInvoked' /\ ~handlerInvoked => pc = "execute"
       /\ pc' = "extract" =>
            /\ pc = "loop"
            /\ currentStep' = currentStep + 1
            /\ iterations >= 1 => /\ Len(actionLog) > logAtStart
                                  /\ LastEntryOfStep(actionLog, currentStep)]_vars

\* The extraction of the second step of a run is starting and the entry of
\* the first step is the last one of the log.
SecondExtractionWitness ==
    /\ pc = "extract" /\ iterations = 2
    /\ Len(actionLog) = logAtStart + 1
    /\ LastEntryOfStep(actionLog, currentStep - 1)

\* C25: the record is written exactly once per run: it is written only
\* after the loop and the release of the browser (never while steps are
\* executing) and every run ends by writing it.
RecordWrittenOnceAtEnd ==
    [][/\ saves' # saves => pc = "save" /\ saves' = saves + 1
       /\ (pc \notin {"returned", "threw"} /\ pc' \in {"returned", "threw"})
            => saves' = saves + 1]_vars

\* The last entry this run appended records a rejected decision.
RejectionLoggedLast ==
    /\ Len(actionLog) > logAtStart
    /\ actionLog[Len(actionLog)].error = Err("ValidationError")

\* C27: when the parser rejects the decision of step k, no handler has been
\* invoked and no action entry exists for step k, the rejection is appended
\* to the log as the entry of step k, the loop ends, and the run is
\* persisted: the finally block goes on to saveResults, which writes a
\* record with status "error".
ParseRejectionRecorded ==
    [][/\ (pc = "catch" /\ caught = Err("ValidationError")) =>
            /\ ~handlerInvoked
            /\ \A i \in (logAtStart + 1)..Len(actionLog) :
                   actionLog[i].step # currentStep
            /\ actionLog' = Append(actionLog, ErrorEntry(currentStep, caught))
            /\ pc' = "finally"
       /\ (pc = "finally" /\ RejectionLoggedLast) => pc' = "save"
       /\ (pc = "save" /\ RejectionLoggedLast) =>
            /\ pc' = "returned"
            /\ saved'.status = "error"
            /\ saved'.actionLog = actionLog]_vars

\* C29: the inter-action wait is entered only from the terminal check of a
\* non-terminal action and only with a configured delay above zero; after
\* a terminal action the loop is left without waiting, and with a delay of
\* zero the next step starts at once.
DelayOnlyAfterNonTerminal ==
    [][/\ pc' = "wait" => /\ pc = "check"
                          /\ ~isTerminal(registry, action.action_type)
                          /\ waitBetweenActions > 0
       /\ (pc = "check" /\ isTerminal(registry, action.action_type))
            => pc' = "finally"
       /\ (pc = "check" /\ ~isTerminal(registry, action.action_type)
             /\ waitBetweenActions = 0) => pc' = "loop"]_vars

\* The wait after a logged non-terminal action is being taken.
DelayTakenWitness ==
    /\ pc = "wait" /\ waitBetweenActions > 0
    /\ ~isTerminal(registry, action.action_type)
    /\ LastEntryOfStep(actionLog, currentStep)
    /\ actionLog[Len(actionLog)].action_type = action.action_type

\* The entries this run has appended hold no terminal action.
NoTerminalLogged ==
    \A i \in (logAtStart + 1)..Len(actionLog) :
        ~isTerminal(registry, actionLog[i].action_type)

\* C30: within one run an action is executed and logged only while no
\* terminal action has been logged, so at most one terminal action is
\* executed; payload, format and title change only at the terminal check
\* of a terminal action, which leaves the loop, and the terminal check of
\* a non-terminal action (extract included) leaves them as they were.
CapturedOnlyByTheTerminalAction ==
    [][/\ pc \in {"execute", "log"} => NoTerminalLogged
       /\ <<extractedData, outputFormat, outputTitle>>'
             # <<extractedData, outputFormat, outputTitle>>
            => /\ pc = "check"
               /\ isTerminal(registry, action.action_type)
               /\ pc' = "finally"
       /\ (pc = "check" /\ ~isTerminal(registry, action.action_type))
            => UNCHANGED <<extractedData, outputFormat, outputTitle>>]_vars

\* A run has executed an extract carrying a payload, a format and a title
\* and then a complete carrying others: the session holds those of the
\* complete.
ExtractThenCompleteWitness ==
    /\ pc = "returned" /\ Len(actionLog) = logAtStart + 2
    /\ actionLog[Len(actionLog) - 1].action_type = "extract"
    /\ actionLog[Len(actionLog) - 1].extracted_data = "d0"
    /\ actionLog[Len(actionLog)].action_type = "complete"
    /\ extractedData = "d1" /\ outputFormat = "markdown" /\ outputTitle = "t1"

\* C22: the runs that have saved a record have pairwise different session
\* identifiers, and the record of every such run is still the content of
\* its file.
SessionIdsUniquePerRun ==
    /\ \A r1, r2 \in sessions.written :
           r1 # r2 => sessions.agents[r1[1]].sessionId
                        # sessions.agents[r2[1]].sessionId
    /\ \A r \in sessions.written :
           [name |-> logPath(sessions.agents[r[1]].sessionId), content |-> r]
               \in sessions.files

\* C26: getPageState() throws only when the page is closed, never because
\* a wait timed out; when it goes on to read the page after a timeout of
\* the load-state wait exactly the extra delay was waited, and otherwise
\* (the network-idle wait timed out or not) exactly the settle delay.
TimeoutsNeverFailTheStep ==
    /\ stable.phase = "threw" => stable.page = "closed"
    /\ stable.phase \in {"content", "extracted"} =>
         stable.waits = IF stable.loadTimedOut THEN <<ExtraDelayMs>>
                        ELSE <<SettleMs>>

\* The page state was extracted after the load-state wait had timed out.
LoadTimeoutWitness ==
    /\ stable.phase = "extracted" /\ stable.loadTimedOut
    /\ stable.page = "live" /\ stable.waits = <<ExtraDelayMs>>

\* A handled request that was answered by one response.
AnsweredOnce(req) == req.phase = "done" /\ Len(req.responses) = 1

\* C28, as stated: every handled request with a goal (a goal the handler
\* does not take as absent) started exactly one session and got the result
\* or a 500 with the error text of the session; a handled request without
\* a goal was answered 400 and started no session.
EveryGoalStartsOneSession ==
    \A r \in DOMAIN server.requests :
        LET req == server.requests[r] IN
        /\ req.sessions <= 1 /\ Len(req.responses) <= 1
        /\ req.phase = "done" =>
             /\ AnsweredOnce(req)
             /\ falsy(req.goal) =>
                    /\ req.responses[1] = Response(400, "goal is required")
                    /\ req.sessions = 0
             /\ ~falsy(req.goal) =>
                    /\ req.sessions = 1
                    /\ req.responses[1] \in {Response(200, "result"),
                                              Response(500, "agent error")}

\* C28, amended: a request never starts more than one session nor gets
\* more than one response, and a handled request got exactly one. Without a
\* goal it was answered 400 and started no session. With a goal text and
\* options that are an object it started exactly one session and got the
\* result or a 500 with the error text. With a goal that is not a string,
\* or with null options, it was answered 500 with the text of the
\* TypeError and started no session.
OneSessionOneResponse ==
    \A r \in DOMAIN server.requests :
        LET req == server.requests[r] IN
        /\ req.sessions <= 1 /\ Len(req.responses) <= 1
        /\ req.phase = "running" => req.sessions = 1 /\ req.responses = <<>>
        /\ req.phase = "done" =>
             /\ AnsweredOnce(req)
             /\ falsy(req.goal) =>
                    /\ req.responses[1] = Response(400, "goal is required")
                    /\ req.sessions = 0
             /\ (req.goal = "text" /\ req.options = "object") =>
                    /\ req.sessions = 1
                    /\ req.responses[1] \in {Response(200, "result"),
                                              Response(500, "agent error")}
             /\ (req.goal = "number" \/ (req.goal = "text" /\ req.options = "null")) =>
                    /\ req.sessions = 0
                    /\ req.responses[1] = Response(500, "TypeError")

\* Two requests with a goal text were handled: one with options that are an
\* object, answered with the result of its one session, and one with null
\* options, answered 500 with no session.
NullOptionsWitness ==
    /\ Len(server.requests) = 2
    /\ server.requests[1] = [goal |-> "text", options |-> "object",
                              phase |-> "done", sessions |-> 1,
                              responses |-> <<Response(200, "result")>>]
    /\ server.requests[2] = [goal |-> "text", options |-> "null",
                              phase |-> "done", sessions |-> 0,
                              responses |-> <<Response(500, "TypeError")>>]

\* The fields of an action: its kind, its reasoning and its parameters.
ActionFields ==
    {"action_type", "reasoning", "element_id", "extracted_data",
     "output_format", "output_title"}

\* C31: the entry appended for an executed action has the step counter of
\* the iteration as its step, every field of the action as the parser
\* returned it, and a result made of the outcome's success flag and error.
LogEntryMirrorsAction ==
    [][pc = "log" =>
        /\ Len(actionLog') = Len(actionLog) + 1
        /\ LET entry == actionLog'[Len(actionLog')] IN
           /\ entry.step = currentStep
           /\ action = parseAction(rawAction)
           /\ \A f \in ActionFields : entry[f] = action[f]
           /\ entry.result = [success |-> result.success, error |-> result.error]]_vars

\* The entry of a failed click on element e1 has just been appended.
FailedClickLoggedWitness ==
    /\ pc = "check" /\ LastEntryOfStep(actionLog, currentStep)
    /\ LET entry == actionLog[Len(actionLog)] IN
       /\ entry.action_type = "click" /\ entry.element_id = "e1"
       /\ entry.reasoning = <<"because">>
       /\ entry.result = [success |-> FALSE, error |-> Err("handler_failed")]

\* C32: a call of execute() leaves the registry and the element table of
\* the executor as they were, both when it is made and when its handler
\* settles; when it runs a handler, that handler is an instance created by
\* this call (one more instance exists than before), of the class
\* registered for the kind and holding the table the executor has at the
\* call; when the kind is unknown no instance is created.
ExecutorOnlyDelegates ==
    [][/\ (pc # "executing" /\ pc' \in {"executing", "executed", "escaped"})
           => /\ registry' = registry
              /\ elementMap' = elementMap
              /\ IF pc' = "executing"
                 THEN /\ handlerInvoked'
                      /\ handlers'.created = handlers.created + 1
                      /\ handlers'.current =
                           [class |-> get(registry, action'.action_type),
                            elementMap |-> elementMap,
                            serial |-> handlers'.created]
                 ELSE ~handlerInvoked' /\ handlers' = handlers
       /\ (pc = "executing" /\ pc' # "executing")
           => /\ registry' = registry
              /\ elementMap' = elementMap
              /\ handlers' = handlers]_vars

\* A second handler was created for a second call, with the table set
\* between the two calls.
SecondHandlerWitness ==
    /\ pc = "executed" /\ handlerInvoked
    /\ handlers.created = 2 /\ handlers.current.serial = 2
    /\ handlers.current.class = get(registry, "click")
    /\ handlers.current.elementMap = {"e1"}

\* C33: the saved status is max_steps_reached exactly when the step counter
\* has reached the maximum and the last log entry is an action that is
\* neither terminal nor an error entry; a terminal last entry gives
\* completed or terminated and an error entry gives error.
MaxStepsReachedExactly ==
    (pc = "returned" /\ actionLog # <<>>) =>
        LET last == actionLog[Len(actionLog)] IN
        /\ saved.status = "max_steps_reached"
             <=> /\ currentStep >= maxSteps
                 /\ ~isTerminal(registry, last.action_type)
                 /\ last.action_type # "error"
        /\ isTerminal(registry, last.action_type)
             => saved.status \in {"completed", "terminated"}
        /\ last.action_type = "error" => saved.status = "error"

\* C34: no two entries of the action log, error entries included, carry
\* the same step value.
OneEntryPerStep ==
    \A i, j \in 1..Len(actionLog) :
        i # j => actionLog[i].step # actionLog[j].step

\* C35: every message POSTed by the client of an open SSE connection was
\* handled by the transport of that connection.
MessageHandledByOwnTransport ==
    \A i \in 1..Len(mcp.messages) :
        mcp.messages[i].handledBy = mcp.messages[i].from

\* C36: every session created and not closed is still stored in the map
\* under its own identifier, so no two live sessions share an identifier
\* and no creation has replaced an entry.
LiveSessionsKeepTheirEntry ==
    \A i \in 1..Len(sessionMap.created) :
        ~sessionMap.created[i].closed
            => [id |-> sessionMap.created[i].id, session |-> i]
                   \in sessionMap.entries

\* C37: when the handler of a skill request has finished, the browser
\* manager created for it, if one was created, has been closed: after the
\* result, after skill-not-found and after an error. A request that had a
\* browser manager was answered; one that was not answered had none (its
\* command was not a string).
BrowserManagerClosed ==
    \A r \in DOMAIN skill.requests :
        LET req == skill.requests[r] IN
        req.phase = "done" =>
            /\ req.browserManager \in {"null", "closed"}
            /\ req.response \in {0, 200, 400, 404, 500}
            /\ req.browserManager = "null" => req.response \in {0, 400, 500}
            /\ req.response = 0 => req.input = "number"

\* A request for an unknown skill type and a request whose skill threw
\* have both finished with their browser managers closed.
NotFoundAndErrorWitness ==
    /\ Len(skill.requests) = 2
    /\ skill.requests[1] = [endpoint |-> "skill_type", input |-> "unknown",
                            phase |-> "done", browserManager |-> "closed",
                            response |-> 404]
    /\ skill.requests[2] = [endpoint |-> "skill", input |-> "command",
                            phase |-> "done", browserManager |-> "closed",
                            response |-> 500]

\* C38: when a mouse_drag action has returned, with success or with
\* failure, the button it pressed is up again, and a call with a
\* coordinate that is not a number issues no pointer operation.
ButtonReleasedOnReturn ==
    drag.phase = "returned" =>
        /\ ~drag.pressed
        /\ drag.result = DragFailure("All coordinates must be numbers")
            => drag.issued = 0

\* The kinds whose classification is compared: the kinds a decision may
\* name, the shipped plugins and the legacy coordinate types.
ClassifiedKinds ==
    Kinds \cup DOMAIN ShippedPlugins \cup {"click_coords", "move_mouse", "drag"}

\* C39: at all times a kind is in ELEMENT_ACTIONS, TERMINAL_ACTIONS or
\* COORDINATE_ACTIONS exactly when requiresElement, isTerminal or
\* isCoordinateAction, respectively, returns true for it.
ListsAgreeWithPredicates ==
    \A k \in ClassifiedKinds :
        /\ k \in exported.ELEMENT_ACTIONS <=> requiresElement(registry, k)
        /\ k \in exported.TERMINAL_ACTIONS <=> isTerminal(registry, k)
        /\ k \in exported.COORDINATE_ACTIONS <=> isCoordinateAction(registry, k)

====
